---- MODULE Spec2Model ----
(***************************************************************************)
(* Model of the relevance / duplicate maintenance pipeline of the         *)
(* question-bank corpus: audit scorer, review-queue builder, safe          *)
(* duplicate cleanup, review-queue batch mover and leftover reconciler,    *)
(* run as separate processes over JSON files.                              *)
(*                                                                         *)
(* A text is a sequence of one-character strings.  A topic file on disk is *)
(* missing, malformed, or a document: a sequence of subcategories, each    *)
(* with a "questions" list that is flat (a sequence of questions) or       *)
(* nested (one mapping from the subcategory id to the questions).          *)
(***************************************************************************)
EXTENDS Integers, Sequences, FiniteSets, TLC

VARIABLES
    topics_file,      \* data/topics.json: "ok" or "missing"
    disk,             \* topic id -> state of the topic's backing file
    queueFile,        \* docs/relevance_review_queue.json: the items
    batchFile,        \* docs/relevance_queue_batch_result.json: the actions
    reconcileFile,    \* docs/relevance_queue_reconcile_result.json: the removals
    auditFile,        \* docs/question_quality_audit.json: the relevance flags
    cleanupFile,      \* docs/question_cleanup_proposed_removals.json: auto_removed
    auditIds,         \* docs/question_quality_audit.json: duplicate_ids
    auditExact,       \* docs/question_quality_audit.json: exact_duplicate_text
    auditNear,        \* docs/question_quality_audit.json: near_duplicates
    dedupeFile,       \* docs/cross_topic_dedupe_proposed_removals.json: removals
    near_threshold,   \* --near-threshold of the audit, in hundredths
    budget,           \* script invocations the operator makes in this behaviour
    stage,            \* the running script, or "idle"
    pc,               \* position of the running script
    apply,            \* --apply of the running script
    min_score,        \* --min-score of the running script
    require_signal,   \* not --no-signal
    file_data,        \* loaded topic documents, mutated in memory
    topic_to_subcats, \* topic -> subcategory id -> nested flag taken at load
    question_lookup,  \* <<topic, subcategory, question id>> -> location
    norms_by_topic,   \* topic -> set of normalized texts
    items,            \* the queue items / batch actions being processed
    cursor,           \* number of items already processed
    actions,          \* actions (mover) or removals (reconciler) recorded
    changed_files,    \* topics whose document changed in memory
    pending,          \* changed topics not yet written
    written,          \* topic files written by the running script (history)
    disk0,            \* the topic files when the running script started (history)
    last,             \* what the loop body just did (history)
    runs              \* history of finished runs

vars == <<topics_file, disk, queueFile, batchFile, reconcileFile, auditFile,
          cleanupFile, budget, stage, pc, apply, min_score, require_signal,
          file_data, topic_to_subcats, question_lookup, norms_by_topic, items,
          cursor, actions, changed_files, pending, written, disk0, last, runs,
          auditIds, auditExact, auditNear, dedupeFile, near_threshold>>

\* the topic index, the operator's plan and the command line of the mover
inputs == <<topics_file, budget, min_score, require_signal, near_threshold>>
\* the report artifacts of the audit, the safe cleanup and the canonical dedupe
findings == <<auditIds, auditExact, auditNear>>
reports == <<auditFile, findings, cleanupFile, dedupeFile>>
\* what a script keeps from its load to its end
loaded == <<topic_to_subcats, question_lookup, items>>

(***************************************************************************)
(* Bounds of the model.                                                    *)
(***************************************************************************)
MaxQs == 2        \* questions in a source subcategory
MaxItems == 2     \* items in the review queue / actions in a batch result
MaxRuns == 2      \* script invocations in one behaviour
MaxLen == 4       \* characters of a question text drawn from an alphabet

\* --near-threshold default 0.92, in hundredths
NEAR_THRESHOLD_DEFAULT == 92

(***************************************************************************)
(* Characters.                                                             *)
(***************************************************************************)
UpperCase == <<"A","B","C","D","E","F","G","H","I","J","K","L","M",
               "N","O","P","Q","R","S","T","U","V","W","X","Y","Z">>
LowerCase == <<"a","b","c","d","e","f","g","h","i","j","k","l","m",
               "n","o","p","q","r","s","t","u","v","w","x","y","z">>
Digits == {"0","1","2","3","4","5","6","7","8","9"}
Whitespace == {" ", "\t", "\n"}
LowerSet == {LowerCase[i] : i \in 1..26}
UpperSet == {UpperCase[i] : i \in 1..26}

\* str.lower() on one character
lower(c) ==
    IF c \in UpperSet
    THEN LowerCase[CHOOSE i \in 1..26 : UpperCase[i] = c]
    ELSE c

\* \w of the regular expressions
IsWordChar(c) == c \in LowerSet \cup UpperSet \cup Digits \cup {"_"}

\* str.strip(): leading and trailing whitespace removed
RECURSIVE strip(_)
strip(t) ==
    IF t = <<>> THEN <<>>
    ELSE IF Head(t) \in Whitespace THEN strip(Tail(t))
    ELSE IF t[Len(t)] \in Whitespace THEN strip(SubSeq(t, 1, Len(t) - 1))
    ELSE t

\* re.sub(r"\s+", " ", t): every maximal whitespace run becomes one space
RECURSIVE collapse(_)
collapse(t) ==
    IF t = <<>> THEN <<>>
    ELSE IF Head(t) \in Whitespace
         THEN IF Len(t) > 1 /\ t[2] \in Whitespace
              THEN collapse(Tail(t))
              ELSE <<" ">> \o collapse(Tail(t))
         ELSE <<Head(t)>> \o collapse(Tail(t))

\* normalize_text without the final strip
normalize_text_unstripped(text) ==
    LET low == [i \in 1..Len(text) |-> lower(text[i])]
        punct == [i \in 1..Len(low) |->
                    IF low[i] \in LowerSet \cup Digits \cup Whitespace
                    THEN low[i] ELSE " "]
    IN collapse(punct)

\* normalize_text: lowercase, non [a-z0-9\s] to space, collapse, strip
normalize_text(text) ==
    LET low == [i \in 1..Len(text) |-> lower(text[i])]
        punct == [i \in 1..Len(low) |->
                    IF low[i] \in LowerSet \cup Digits \cup Whitespace
                    THEN low[i] ELSE " "]
    IN strip(collapse(punct))

(***************************************************************************)
(* The topic index and the per-topic tables of the batch mover.            *)
(***************************************************************************)
TopicIndex == <<"general_current_affairs", "procurement_act", "policy_analysis">>
TopicIds == {TopicIndex[i] : i \in 1..Len(TopicIndex)}

TARGET_SUBCATEGORY_DEFAULT ==
    [t \in TopicIds |->
        IF t = "procurement_act" THEN "proc_objectives_institutions"
        ELSE IF t = "policy_analysis" THEN "pol_analysis_methods"
        ELSE "ca_general"]

\* the alternatives of each topic's signal pattern, \b(a|b|...)\b with re.I
TARGET_SIGNAL_PATTERNS ==
    [t \in TopicIds |->
        IF t = "procurement_act" THEN
          {<<"p","u","b","l","i","c"," ","p","r","o","c","u","r","e","m","e","n","t"," ","a","c","t">>,
           <<"p","r","o","c","u","r","e","m","e","n","t">>,
           <<"b","p","p">>,
           <<"c","e","r","t","i","f","i","c","a","t","e"," ","o","f"," ","n","o"," ","o","b","j","e","c","t","i","o","n">>,
           <<"b","i","d"," ","o","p","e","n","i","n","g">>,
           <<"p","r","o","c","u","r","i","n","g"," ","e","n","t","i","t">>}
        ELSE IF t = "policy_analysis" THEN
          {<<"p","o","l","i","c","y"," ","f","o","r","m","u","l","a","t","i","o","n">>,
           <<"p","o","l","i","c","y"," ","a","n","a","l","y","s","i","s">>,
           <<"p","o","l","i","c","y"," ","i","m","p","l","e","m","e","n","t","a","t","i","o","n">>,
           <<"e","v","a","l","u","a","t","i","o","n">>}
        ELSE
          {<<"c","u","r","r","e","n","t"," ","a","f","f","a","i","r","s">>,
           <<"r","e","c","e","n","t">>,
           <<"n","e","w","s">>,
           <<"t","o","d","a","y">>,
           <<"i","n","t","e","r","n","a","t","i","o","n","a","l">>}]

\* pattern.search(text): some alternative occurs between two word boundaries
MatchesAt(text, alt, p) ==
    /\ p + Len(alt) - 1 <= Len(text)
    /\ \A k \in 1..Len(alt) : lower(text[p + k - 1]) = alt[k]
    /\ (p = 1 \/ ~IsWordChar(text[p - 1]))
    /\ (p + Len(alt) - 1 = Len(text) \/ ~IsWordChar(text[p + Len(alt)]))

has_target_signal(text, target_topic) ==
    /\ target_topic \in DOMAIN TARGET_SIGNAL_PATTERNS
    /\ \E alt \in TARGET_SIGNAL_PATTERNS[target_topic] :
          \E p \in 1..Len(text) : MatchesAt(text, alt, p)

(***************************************************************************)
(* Question lists: the two on-disk shapes.                                 *)
(***************************************************************************)
IsMap(e) == "key" \in DOMAIN e

\* iterate_subcategory_questions: the question sequence and the nested flag
\* a subcategory record has the field questions when the value in the file
\* is a list; a missing value and a value of another type have no field
HasQuestionList(sub) == "questions" \in DOMAIN sub

\* the detection that takes a map under any key for the nested shape
IsNestedAnyKey(sub) ==
    /\ HasQuestionList(sub)
    /\ Len(sub.questions) > 0
    /\ IsMap(sub.questions[1])

IsNested(sub) ==
    /\ HasQuestionList(sub)
    /\ Len(sub.questions) > 0
    /\ IsMap(sub.questions[1])
    /\ sub.id # ""
    /\ sub.questions[1].key = sub.id

iterate_subcategory_questions(sub) ==
    IF ~HasQuestionList(sub) THEN <<>>
    ELSE IF IsNested(sub) THEN sub.questions[1].val ELSE sub.questions

\* the assignment that ignores the nested flag
SetQuestionsFlat(sub, nested, qs) ==
    [sub EXCEPT !.questions = qs]

\* the assignment sub["questions"][0][sid] = qs (nested) or sub["questions"] = qs
SetQuestions(sub, nested, qs) ==
    IF nested
    THEN [sub EXCEPT !.questions = <<[key |-> sub.id, val |-> qs]>> \o Tail(sub.questions)]
    ELSE [sub EXCEPT !.questions = qs]

\* the last subcategory of the document with this id (0: none)
SubPos(doc, sid) ==
    LET hits == {j \in 1..Len(doc) : doc[j].id = sid}
    IN IF hits = {} THEN 0 ELSE CHOOSE j \in hits : \A k \in hits : k <= j

RemoveAt(qlist, index) ==
    LET keep == {i \in 1..Len(qlist) : i - 1 # index}
        F[i \in 0..Len(qlist)] ==
            IF i = 0 THEN <<>>
            ELSE IF i \in keep THEN Append(F[i - 1], qlist[i]) ELSE F[i - 1]
    IN F[Len(qlist)]

(***************************************************************************)
(* Accessors of JSON objects: q.get("id", ""), q.get("question", "").      *)
(***************************************************************************)
QId(q) == IF "id" \in DOMAIN q THEN q.id ELSE ""
QText(q) == IF "question" \in DOMAIN q THEN q.question ELSE <<>>

Missing == [kind |-> "missing"]
Malformed == [kind |-> "malformed"]
Doc(subs) == [kind |-> "doc", subcategories |-> subs]

\* the topics whose file exists
Existing(d) == {t \in TopicIds : d[t].kind # "missing"}
\* json.load raises on one of the files that exist
LoadRaises(d) == \E t \in Existing(d) : d[t].kind = "malformed"

(***************************************************************************)
(* Batch mover: load_topic_data.                                           *)
(***************************************************************************)
LoadFileData(d) == [t \in Existing(d) |-> d[t].subcategories]

LoadTopicToSubcats(d) ==
    [t \in Existing(d) |->
        LET doc == d[t].subcategories
        IN [sid \in {doc[j].id : j \in 1..Len(doc)} |->
               IsNested(doc[SubPos(doc, sid)])]]

\* the keys of question_lookup
LookupKeys(d) ==
    UNION {UNION {{<<t, d[t].subcategories[j].id,
                     QId(iterate_subcategory_questions(d[t].subcategories[j])[i])>> :
                      i \in 1..Len(iterate_subcategory_questions(d[t].subcategories[j]))} :
                  j \in 1..Len(d[t].subcategories)} :
           t \in Existing(d)}

\* the entry that the last (subcategory, position) with this key leaves
LookupEntry(doc, sid, qid) ==
    LET js == {j \in 1..Len(doc) :
                 /\ doc[j].id = sid
                 /\ \E i \in 1..Len(iterate_subcategory_questions(doc[j])) :
                       QId(iterate_subcategory_questions(doc[j])[i]) = qid}
        j == CHOOSE j \in js : \A k \in js : k <= j
        ql == iterate_subcategory_questions(doc[j])
        is == {i \in 1..Len(ql) : QId(ql[i]) = qid}
        i == CHOOSE i \in is : \A k \in is : k <= i
    IN [index |-> i - 1, question |-> ql[i], norm |-> normalize_text(strip(QText(ql[i])))]

LoadQuestionLookup(d) ==
    [key \in LookupKeys(d) |-> LookupEntry(d[key[1]].subcategories, key[2], key[3])]

DocNorms(doc) ==
    UNION {{normalize_text(strip(QText(iterate_subcategory_questions(doc[j])[i]))) :
              i \in 1..Len(iterate_subcategory_questions(doc[j]))} :
           j \in 1..Len(doc)}

LoadNormsByTopic(d) ==
    [t \in Existing(d) |-> DocNorms(d[t].subcategories) \ {<<>>}]

NormsOf(nbt, t) == IF t \in DOMAIN nbt THEN nbt[t] ELSE {}

(***************************************************************************)
(* Batch mover: the two mutations.                                         *)
(***************************************************************************)
\* append_question_to_target: whether it returns True
AppendOk(tts, target_topic) ==
    /\ target_topic \in DOMAIN TARGET_SUBCATEGORY_DEFAULT
    /\ target_topic \in DOMAIN tts
    /\ TARGET_SUBCATEGORY_DEFAULT[target_topic] \in DOMAIN tts[target_topic]

\* append_question_to_target: the documents afterwards
AppendQuestion(fd, tts, target_topic, question_obj) ==
    IF ~AppendOk(tts, target_topic) THEN fd
    ELSE LET sid == TARGET_SUBCATEGORY_DEFAULT[target_topic]
             j == SubPos(fd[target_topic], sid)
             sub == fd[target_topic][j]
             nested == tts[target_topic][sid]
             qs == IF nested THEN sub.questions[1].val ELSE sub.questions
         IN [fd EXCEPT ![target_topic][j] =
                SetQuestions(sub, nested, Append(qs, question_obj))]

\* remove_question_from_source: whether it returns True
RemoveOk(fd, tts, source_topic, source_subcategory, index) ==
    /\ source_topic \in DOMAIN tts
    /\ source_subcategory \in DOMAIN tts[source_topic]
    /\ LET sub == fd[source_topic][SubPos(fd[source_topic], source_subcategory)]
       IN index >= 0 /\ index < Len(iterate_subcategory_questions(sub))

\* remove_question_from_source: the documents afterwards
RemoveQuestion(fd, tts, source_topic, source_subcategory, index) ==
    IF ~RemoveOk(fd, tts, source_topic, source_subcategory, index) THEN fd
    ELSE LET j == SubPos(fd[source_topic], source_subcategory)
             sub == fd[source_topic][j]
             nested == tts[source_topic][source_subcategory]
         IN [fd EXCEPT ![source_topic][j] =
                SetQuestions(sub, nested,
                             RemoveAt(iterate_subcategory_questions(sub), index))]

(***************************************************************************)
(* Batch mover: process_queue.                                             *)
(***************************************************************************)
\* sorted(items, key=best_other, reverse=True): stable, highest score first
RECURSIVE InsertByScore(_, _)
InsertByScore(sorted, item) ==
    IF sorted = <<>> THEN <<item>>
    ELSE IF Head(sorted).best_other >= item.best_other
         THEN <<Head(sorted)>> \o InsertByScore(Tail(sorted), item)
         ELSE <<item>> \o sorted

SortByScore(its) ==
    LET F[i \in 0..Len(its)] ==
            IF i = 0 THEN <<>> ELSE InsertByScore(F[i - 1], its[i])
    IN F[Len(its)]

\* the input filters without the test of the score
FilteredAnyScore(item, lookup, minScore, requireSignal) ==
    \/ item.source_topic = ""
    \/ item.source_subcategory = ""
    \/ item.question_id = ""
    \/ item.suggested_target_topic = ""
    \/ requireSignal /\ ~has_target_signal(item.question, item.suggested_target_topic)
    \/ <<item.source_topic, item.source_subcategory, item.question_id>> \notin DOMAIN lookup

\* the input filters of the loop body: the item is skipped without a record
Filtered(item, lookup, minScore, requireSignal) ==
    \/ item.source_topic = ""
    \/ item.source_subcategory = ""
    \/ item.question_id = ""
    \/ item.suggested_target_topic = ""
    \/ item.best_other < minScore
    \/ requireSignal /\ ~has_target_signal(item.question, item.suggested_target_topic)
    \/ <<item.source_topic, item.source_subcategory, item.question_id>> \notin DOMAIN lookup

ActionRecord(action, item, reason) ==
    [action |-> action,
     question_id |-> item.question_id,
     source_topic |-> item.source_topic,
     source_subcategory |-> item.source_subcategory,
     target_topic |-> item.suggested_target_topic,
     reason |-> reason]

NoLast == [path |-> "none", moved_in |-> FALSE, removed |-> FALSE]

Reset ==
    /\ stage' = "idle"
    /\ pc' = "idle"
    /\ apply' = FALSE
    /\ file_data' = <<>>
    /\ topic_to_subcats' = <<>>
    /\ question_lookup' = <<>>
    /\ norms_by_topic' = <<>>
    /\ items' = <<>>
    /\ cursor' = 0
    /\ actions' = <<>>
    /\ changed_files' = {}
    /\ pending' = {}
    /\ written' = {}
    /\ disk0' = <<>>
    /\ last' = NoLast

RunRecord(result) ==
    [stage |-> stage, apply |-> apply, result |-> result, actions |-> actions,
     written |-> written, before |-> disk0]

\* the write loop over changed_files comes after the loop over the items
ToFlushEarly(atEnd, changed) == changed

ToFlush(atEnd, changed) == IF atEnd THEN changed ELSE {}

\* process_queue up to the loop: the queue and the corpus are loaded
MoverStart(ap) ==
    /\ stage = "idle"
    /\ Len(runs) < budget
    /\ topics_file = "ok"
    /\ ~LoadRaises(disk)
    /\ stage' = "mover"
    /\ apply' = ap
    /\ file_data' = LoadFileData(disk)
    /\ topic_to_subcats' = LoadTopicToSubcats(disk)
    /\ question_lookup' = LoadQuestionLookup(disk)
    /\ norms_by_topic' = LoadNormsByTopic(disk)
    /\ items' = SortByScore(queueFile)
    /\ cursor' = 0
    /\ actions' = <<>>
    /\ changed_files' = {}
    /\ pending' = {}
    /\ written' = {}
    /\ disk0' = disk
    /\ last' = NoLast
    /\ pc' = IF queueFile = <<>> THEN "flush" ELSE "loop"
    /\ UNCHANGED <<inputs, reports, disk, queueFile, batchFile, reconcileFile, runs>>

\* one pass of the loop body of process_queue
MoverItem ==
    /\ stage = "mover"
    /\ pc = "loop"
    /\ cursor < Len(items)
    /\ LET item == items[cursor + 1]
           norm == normalize_text(item.question)
           key == <<item.source_topic, item.source_subcategory, item.question_id>>
           tgt == item.suggested_target_topic
           atEnd == cursor + 1 = Len(items)
       IN /\ cursor' = cursor + 1
          /\ pc' = IF atEnd THEN "flush" ELSE "loop"
          /\ IF Filtered(item, question_lookup, min_score, require_signal)
             THEN /\ last' = NoLast
                  /\ pending' = ToFlush(atEnd, changed_files)
                  /\ UNCHANGED <<file_data, norms_by_topic, actions, changed_files>>
             ELSE LET loc == question_lookup[key]
                  IN IF norm # <<>> /\ norm \in NormsOf(norms_by_topic, tgt)
                     THEN \* remove_source_duplicate
                          LET ok == apply /\ RemoveOk(file_data, topic_to_subcats,
                                                      item.source_topic,
                                                      item.source_subcategory, loc.index)
                              ch == IF ok THEN changed_files \cup {item.source_topic}
                                    ELSE changed_files
                          IN /\ file_data' =
                                  IF apply
                                  THEN RemoveQuestion(file_data, topic_to_subcats,
                                                      item.source_topic,
                                                      item.source_subcategory, loc.index)
                                  ELSE file_data
                             /\ changed_files' = ch
                             /\ pending' = ToFlush(atEnd, ch)
                             /\ actions' = Append(actions,
                                   ActionRecord("remove_source_duplicate", item,
                                                "equivalent_exists_in_target_topic"))
                             /\ last' = [path |-> "dup", moved_in |-> FALSE, removed |-> ok]
                             /\ UNCHANGED norms_by_topic
                     ELSE \* move_to_target
                          LET moved_in == AppendOk(topic_to_subcats, tgt)
                              fd1 == AppendQuestion(file_data, topic_to_subcats, tgt,
                                                    loc.question)
                              removed == RemoveOk(fd1, topic_to_subcats,
                                                  item.source_topic,
                                                  item.source_subcategory, loc.index)
                              fd2 == RemoveQuestion(fd1, topic_to_subcats,
                                                    item.source_topic,
                                                    item.source_subcategory, loc.index)
                              both == moved_in /\ removed
                              ch == IF apply /\ both
                                    THEN changed_files \cup {item.source_topic, tgt}
                                    ELSE changed_files
                          IN /\ file_data' = IF apply THEN fd2 ELSE file_data
                             /\ changed_files' = ch
                             /\ pending' = ToFlush(atEnd, ch)
                             /\ norms_by_topic' =
                                  IF apply /\ both /\ norm # <<>>
                                  THEN [norms_by_topic EXCEPT ![tgt] = @ \cup {norm}]
                                  ELSE norms_by_topic
                             /\ actions' = Append(actions,
                                   ActionRecord(IF apply /\ ~both
                                                THEN "skipped_move_failed"
                                                ELSE "move_to_target",
                                                item, "high_confidence_signal_matched"))
                             /\ last' = [path |-> "move",
                                         moved_in |-> apply /\ moved_in,
                                         removed |-> apply /\ removed]
    /\ UNCHANGED <<inputs, reports, loaded, disk, queueFile, batchFile,
                   reconcileFile, stage, apply, written, disk0, runs>>

\* dump_json of one changed topic file
MoverWrite ==
    /\ stage = "mover"
    /\ \E t \in pending :
          /\ disk' = [disk EXCEPT ![t] = Doc(file_data[t])]
          /\ pending' = pending \ {t}
          /\ written' = written \cup {t}
    /\ UNCHANGED <<inputs, reports, loaded, queueFile, batchFile, reconcileFile,
                   stage, pc, apply, file_data, norms_by_topic, cursor, actions,
                   changed_files, disk0, last, runs>>

\* write_outputs: the batch result artifact, and the process ends
MoverFinish ==
    /\ stage = "mover"
    /\ pc = "flush"
    /\ pending = {}
    /\ batchFile' = actions
    /\ runs' = Append(runs, RunRecord("done"))
    /\ Reset
    /\ UNCHANGED <<inputs, reports, disk, queueFile, reconcileFile>>

(***************************************************************************)
(* Reconciler: reconcile_relevance_moves.py.                               *)
(***************************************************************************)
\* build_indices: every normalized text of the loaded documents
BuildIndices(fd) == [t \in DOMAIN fd |-> DocNorms(fd[t])]

\* the first subcategory of the document with this id (0: none)
FirstSubPos(doc, sid) ==
    LET hits == {j \in 1..Len(doc) : doc[j].id = sid}
    IN IF hits = {} THEN 0 ELSE CHOOSE j \in hits : \A k \in hits : j <= k

\* remove_idx: the questions with the action's id and a text of the target
Leftovers(qlist, qid, norms) ==
    {i \in 1..Len(qlist) :
        /\ QId(qlist[i]) = qid
        /\ normalize_text(QText(qlist[i])) # <<>>
        /\ normalize_text(QText(qlist[i])) \in norms}

\* the actions the loop skips
ReconSkips(action, fd) ==
    \/ action.action \notin {"move_to_target", "remove_source_duplicate"}
    \/ action.source_topic = ""
    \/ action.source_subcategory = ""
    \/ action.target_topic = ""
    \/ action.question_id = ""
    \/ action.source_topic \notin DOMAIN fd
    \/ FirstSubPos(fd[action.source_topic], action.source_subcategory) = 0

\* sorted(changed_topics): the position of a topic id in alphabetical order
SortedTopicIds == <<"general_current_affairs", "policy_analysis", "procurement_act">>
FirstOf(S) ==
    SortedTopicIds[CHOOSE i \in 1..Len(SortedTopicIds) :
                      /\ SortedTopicIds[i] \in S
                      /\ \A k \in 1..(i - 1) : SortedTopicIds[k] \notin S]

\* main up to the loop: the batch result and the corpus are loaded
ReconStart ==
    /\ stage = "idle"
    /\ Len(runs) < budget
    /\ topics_file = "ok"
    /\ ~LoadRaises(disk)
    /\ stage' = "reconciler"
    /\ apply' = FALSE
    /\ file_data' = LoadFileData(disk)
    /\ norms_by_topic' = BuildIndices(LoadFileData(disk))
    /\ topic_to_subcats' = <<>>
    /\ question_lookup' = <<>>
    /\ items' = batchFile
    /\ cursor' = 0
    /\ actions' = <<>>
    /\ changed_files' = {}
    /\ pending' = {}
    /\ written' = {}
    /\ disk0' = disk
    /\ last' = NoLast
    /\ pc' = IF batchFile = <<>> THEN "flush" ELSE "loop"
    /\ UNCHANGED <<inputs, reports, disk, queueFile, batchFile, reconcileFile, runs>>

\* one pass of the loop over the batch actions
ReconItem ==
    /\ stage = "reconciler"
    /\ pc = "loop"
    /\ cursor < Len(items)
    /\ LET action == items[cursor + 1]
           atEnd == cursor + 1 = Len(items)
       IN /\ cursor' = cursor + 1
          /\ pc' = IF atEnd THEN "flush" ELSE "loop"
          /\ IF ReconSkips(action, file_data)
             THEN /\ pending' = ToFlush(atEnd, changed_files)
                  /\ UNCHANGED <<file_data, actions, changed_files>>
             ELSE LET src == action.source_topic
                      j == FirstSubPos(file_data[src], action.source_subcategory)
                      sub == file_data[src][j]
                      qlist == iterate_subcategory_questions(sub)
                      hits == Leftovers(qlist, action.question_id,
                                        NormsOf(norms_by_topic, action.target_topic))
                  IN IF hits = {}
                     THEN /\ pending' = ToFlush(atEnd, changed_files)
                          /\ UNCHANGED <<file_data, actions, changed_files>>
                     ELSE LET i == CHOOSE i \in hits : \A k \in hits : i <= k
                          IN /\ file_data' =
                                  [file_data EXCEPT ![src][j] =
                                      SetQuestions(sub, IsNested(sub),
                                                   RemoveAt(qlist, i - 1))]
                             /\ actions' = Append(actions,
                                   [question_id |-> action.question_id,
                                    source_topic |-> src,
                                    source_subcategory |-> action.source_subcategory,
                                    target_topic |-> action.target_topic,
                                    question |-> QText(qlist[i])])
                             /\ changed_files' = changed_files \cup {src}
                             /\ pending' = ToFlush(atEnd, changed_files \cup {src})
    /\ UNCHANGED <<inputs, reports, loaded, disk, queueFile, batchFile,
                   reconcileFile, stage, apply, norms_by_topic, written, disk0,
                   last, runs>>

\* dump_json of the next changed topic, in sorted order
ReconWrite ==
    /\ stage = "reconciler"
    /\ pending # {}
    /\ LET t == FirstOf(pending)
       IN /\ disk' = [disk EXCEPT ![t] = Doc(file_data[t])]
          /\ pending' = pending \ {t}
          /\ written' = written \cup {t}
    /\ UNCHANGED <<inputs, reports, loaded, queueFile, batchFile, reconcileFile,
                   stage, pc, apply, file_data, norms_by_topic, cursor, actions,
                   changed_files, disk0, last, runs>>

\* the reconcile result is written and the process ends
ReconFinish ==
    /\ stage = "reconciler"
    /\ pc = "flush"
    /\ pending = {}
    /\ reconcileFile' = actions
    /\ runs' = Append(runs, RunRecord("done"))
    /\ Reset
    /\ UNCHANGED <<inputs, reports, disk, queueFile, batchFile>>

(***************************************************************************)
(* Safe duplicate cleanup: cleanup_duplicates_safe.py.                     *)
(***************************************************************************)
RemoveIndicesKeepLast(qlist) ==
    {i \in 1..Len(qlist) :
        /\ normalize_text(strip(QText(qlist[i]))) # <<>>
        /\ \E k \in (i + 1)..Len(qlist) :
              normalize_text(strip(QText(qlist[k]))) =
              normalize_text(strip(QText(qlist[i])))}

\* remove_indices of one question list: the loop with its seen_norm table
RemoveIndices(qlist) ==
    LET norm(i) == normalize_text(strip(QText(qlist[i])))
        F[i \in 0..Len(qlist)] ==
            IF i = 0 THEN [seen_norm |-> {}, remove_indices |-> {}]
            ELSE IF norm(i) = <<>> THEN F[i - 1]
            ELSE IF norm(i) \in F[i - 1].seen_norm
                 THEN [F[i - 1] EXCEPT !.remove_indices = @ \cup {i}]
                 ELSE [F[i - 1] EXCEPT !.seen_norm = @ \cup {norm(i)}]
    IN F[Len(qlist)].remove_indices

\* [q for i, q in enumerate(question_list) if i not in to_remove]
WithoutIndices(qlist, to_remove) ==
    LET F[i \in 0..Len(qlist)] ==
            IF i = 0 THEN <<>>
            ELSE IF i \in to_remove THEN F[i - 1] ELSE Append(F[i - 1], qlist[i])
    IN F[Len(qlist)]

\* the subcategory after cleanup_file
CleanSubcategory(sub) ==
    LET qlist == iterate_subcategory_questions(sub)
        to_remove == RemoveIndices(qlist)
    IN IF qlist = <<>> \/ to_remove = {} THEN sub
       ELSE SetQuestions(sub, IsNested(sub), WithoutIndices(qlist, to_remove))

CleanDocument(doc) == [j \in 1..Len(doc) |-> CleanSubcategory(doc[j])]

\* the removals of cleanup_file, in document order
SubRemovals(topic_id, sub) ==
    LET qlist == iterate_subcategory_questions(sub)
        to_remove == RemoveIndices(qlist)
        F[i \in 0..Len(qlist)] ==
            IF i = 0 THEN <<>>
            ELSE IF i \in to_remove
                 THEN Append(F[i - 1],
                             [topic_id |-> topic_id, subcategory_id |-> sub.id,
                              question_id |-> QId(qlist[i]),
                              question |-> strip(QText(qlist[i]))])
                 ELSE F[i - 1]
    IN F[Len(qlist)]

DocRemovals(topic_id, doc) ==
    LET G[j \in 0..Len(doc)] ==
            IF j = 0 THEN <<>> ELSE G[j - 1] \o SubRemovals(topic_id, doc[j])
    IN G[Len(doc)]

\* a run that ends in an uncaught exception before it loaded anything
CrashRecord(st, ap) ==
    [stage |-> st, apply |-> ap, result |-> "crashed", actions |-> <<>>,
     written |-> {}, before |-> disk]

\* main up to the loop over the topic index
CleanupStart(ap) ==
    /\ stage = "idle"
    /\ Len(runs) < budget
    /\ topics_file = "ok"
    /\ stage' = "cleanup"
    /\ pc' = "loop"
    /\ apply' = ap
    /\ cursor' = 0
    /\ disk0' = disk
    /\ UNCHANGED <<inputs, reports, loaded, disk, queueFile, batchFile,
                   reconcileFile, file_data, norms_by_topic, actions,
                   changed_files, pending, written, last, runs>>

\* load_json(TOPICS_FILE) raises
CleanupCrash(ap) ==
    /\ stage = "idle"
    /\ Len(runs) < budget
    /\ topics_file # "ok"
    /\ runs' = Append(runs, CrashRecord("cleanup", ap))
    /\ UNCHANGED <<inputs, reports, loaded, disk, queueFile, batchFile,
                   reconcileFile, stage, pc, apply, file_data, norms_by_topic,
                   cursor, actions, changed_files, pending, written, disk0, last>>

\* one pass of the loop of main: cleanup_file, then dump_json under --apply
CleanupFile ==
    /\ stage = "cleanup"
    /\ pc = "loop"
    /\ cursor < Len(TopicIndex)
    /\ LET t == TopicIndex[cursor + 1]
       IN /\ disk[t].kind # "malformed"
          /\ cursor' = cursor + 1
          /\ pc' = IF cursor + 1 = Len(TopicIndex) THEN "flush" ELSE "loop"
          /\ IF disk[t].kind = "missing"
             THEN UNCHANGED <<disk, file_data, actions, changed_files, written>>
             ELSE LET data == CleanDocument(disk[t].subcategories)
                      removals == DocRemovals(t, disk[t].subcategories)
                  IN /\ file_data' = [x \in DOMAIN file_data \cup {t} |->
                                         IF x = t THEN data ELSE file_data[x]]
                     /\ actions' = actions \o removals
                     /\ changed_files' = IF removals # <<>>
                                         THEN changed_files \cup {t}
                                         ELSE changed_files
                     /\ disk' = IF removals # <<>> /\ apply
                                THEN [disk EXCEPT ![t] = Doc(data)]
                                ELSE disk
                     /\ written' = IF removals # <<>> /\ apply
                                   THEN written \cup {t}
                                   ELSE written
    /\ UNCHANGED <<inputs, reports, loaded, queueFile, batchFile, reconcileFile,
                   stage, apply, norms_by_topic, pending, disk0, last, runs>>

\* load_json of the next topic file raises: the process ends where it is
CleanupRaise ==
    /\ stage = "cleanup"
    /\ pc = "loop"
    /\ cursor < Len(TopicIndex)
    /\ disk[TopicIndex[cursor + 1]].kind = "malformed"
    /\ runs' = Append(runs, RunRecord("crashed"))
    /\ Reset
    /\ UNCHANGED <<inputs, reports, disk, queueFile, batchFile, reconcileFile>>

\* the report is written and the process ends
CleanupFinish ==
    /\ stage = "cleanup"
    /\ pc = "flush"
    /\ cleanupFile' = actions
    /\ runs' = Append(runs, RunRecord("done"))
    /\ Reset
    /\ UNCHANGED <<inputs, auditFile, findings, dedupeFile, disk, queueFile,
                   batchFile, reconcileFile>>

(***************************************************************************)
(* Audit scorer: audit_question_quality.py.                                *)
(***************************************************************************)
STOPWORDS ==
    {<<"a">>, <<"a","n">>, <<"a","n","d">>, <<"a","r","e">>, <<"a","s">>,
     <<"a","t">>, <<"b","e">>, <<"b","y">>, <<"f","o","r">>,
     <<"f","r","o","m">>, <<"i","n">>, <<"i","s">>, <<"i","t">>,
     <<"o","f">>, <<"o","n">>, <<"o","r">>, <<"t","h","a","t">>,
     <<"t","h","e">>, <<"t","o">>, <<"w","a","s">>, <<"w","e","r","e">>,
     <<"w","h","a","t">>, <<"w","h","i","c","h">>, <<"w","h","o">>,
     <<"w","i","t","h">>}

TOPIC_HINTS ==
    [t \in TopicIds |->
        IF t = "procurement_act" THEN
          {<<"p","r","o","c","u","r","e","m","e","n","t">>,
           <<"b","i","d">>, <<"t","e","n","d","e","r">>,
           <<"c","o","n","t","r","a","c","t">>, <<"b","p","p">>,
           <<"v","e","n","d","o","r">>,
           <<"e","v","a","l","u","a","t","i","o","n">>,
           <<"a","w","a","r","d">>}
        ELSE IF t = "policy_analysis" THEN
          {<<"p","o","l","i","c","y">>, <<"f","o","r","m","u","l","a","t","i","o","n">>,
           <<"i","m","p","l","e","m","e","n","t","a","t","i","o","n">>, <<"e","v","a","l","u","a","t","i","o","n">>,
           <<"p","l","a","n","n","i","n","g">>}
        ELSE
          {<<"c","u","r","r","e","n","t">>, <<"r","e","c","e","n","t">>,
           <<"t","o","d","a","y">>, <<"y","e","a","r">>,
           <<"a","f","f","a","i","r","s">>, <<"n","e","w","s">>,
           <<"i","n","t","e","r","n","a","t","i","o","n","a","l">>}]

\* the names of the topic index, and the text of the subcategory ids
TopicName ==
    [t \in TopicIds |->
        IF t = "procurement_act" THEN <<"P","u","b","l","i","c"," ","P","r","o","c","u","r","e","m","e","n","t"," ","A","c","t">>
        ELSE IF t = "policy_analysis" THEN <<"P","o","l","i","c","y"," ","A","n","a","l","y","s","i","s">>
        ELSE <<"G","e","n","e","r","a","l"," ","C","u","r","r","e","n","t"," ","A","f","f","a","i","r","s">>]

IdText(id) ==
    CASE id = "ca_general" -> <<"c","a","_","g","e","n","e","r","a","l">>
      [] id = "ca_other" -> <<"c","a","_","o","t","h","e","r">>
      [] id = "proc_other" -> <<"p","r","o","c","_","o","t","h","e","r">>
      [] id = "proc_objectives_institutions" ->
            <<"p","r","o","c","_","o","b","j","e","c","t","i","v","e","s","_","i","n","s","t","i","t","u","t","i","o","n","s">>
      [] id = "pol_analysis_methods" -> <<"p","o","l","_","a","n","a","l","y","s","i","s","_","m","e","t","h","o","d","s">>
      [] id = "q1" -> <<"q","1">>
      [] id = "q2" -> <<"q","2">>
      [] id = "q3" -> <<"q","3">>
      [] id = "q4" -> <<"q","4">>
      [] id = "q9" -> <<"q","9">>
      [] OTHER -> <<>>

\* str.split() of a normalized text
RECURSIVE split(_)
split(t) ==
    IF t = <<>> THEN <<>>
    ELSE IF Head(t) \in Whitespace THEN split(Tail(t))
    ELSE LET ends == {k \in 1..Len(t) : t[k] \in Whitespace}
             e == IF ends = {} THEN Len(t) + 1
                  ELSE CHOOSE k \in ends : \A m \in ends : k <= m
         IN <<SubSeq(t, 1, e - 1)>> \o split(SubSeq(t, e + 1, Len(t)))

IsContentWord(tok) == tok # <<>> /\ tok \notin STOPWORDS

tokenize(text) == SelectSeq(split(normalize_text(text)), IsContentWord)

Range(f) == {f[i] : i \in DOMAIN f}

\* sub.get("name", sub_id), q.get("keywords") or [], q.get("chapter", "")
SubName(sub) == IF "name" \in DOMAIN sub THEN sub.name ELSE IdText(sub.id)
QKeywords(q) == IF "keywords" \in DOMAIN q THEN q.keywords ELSE <<>>
QChapter(q) == IF "chapter" \in DOMAIN q THEN strip(q.chapter) ELSE <<>>

\* " ".join(keywords)
JoinSpace(texts) ==
    LET F[i \in 0..Len(texts)] ==
            IF i = 0 THEN <<>>
            ELSE IF i = 1 THEN texts[1]
            ELSE F[i - 1] \o <<" ">> \o texts[i]
    IN F[Len(texts)]

\* safe_get_questions: the question sequence of a subcategory
safe_get_questions(sub) == iterate_subcategory_questions(sub)

QEntry(topic_id, sub, q) ==
    [topic_id |-> topic_id,
     subcategory_id |-> sub.id,
     subcategory_name |-> SubName(sub),
     question_id |-> QId(q),
     question |-> strip(QText(q)),
     keywords |-> QKeywords(q),
     chapter |-> QChapter(q),
     norm_question |-> normalize_text(strip(QText(q))),
     tokens |-> tokenize(strip(QText(q)))]

\* collect_entries: the entries in topic index, subcategory and list order
SubEntries(topic_id, sub) ==
    [i \in 1..Len(safe_get_questions(sub)) |->
        QEntry(topic_id, sub, safe_get_questions(sub)[i])]

DocEntries(topic_id, doc) ==
    LET G[j \in 0..Len(doc)] ==
            IF j = 0 THEN <<>> ELSE G[j - 1] \o SubEntries(topic_id, doc[j])
    IN G[Len(doc)]

collect_entries(d) ==
    LET G[n \in 0..Len(TopicIndex)] ==
            IF n = 0 THEN <<>>
            ELSE IF d[TopicIndex[n]].kind = "doc"
                 THEN G[n - 1] \o DocEntries(TopicIndex[n],
                                             d[TopicIndex[n]].subcategories)
                 ELSE G[n - 1]
    IN G[Len(TopicIndex)]

\* the topic profiles without the names of the subcategories
topic_profile_without_subcategories(entries) ==
    [t \in {entries[i].topic_id : i \in 1..Len(entries)} |->
        Range(tokenize(TopicName[t])) \cup TOPIC_HINTS[t]]

\* topic_profile_tokens: only topics with an entry have a profile
topic_profile_tokens(entries) ==
    [t \in {entries[i].topic_id : i \in 1..Len(entries)} |->
        Range(tokenize(TopicName[t]))
        \cup UNION {Range(tokenize(entries[i].subcategory_name)) :
                       i \in {k \in 1..Len(entries) : entries[k].topic_id = t}}
        \cup TOPIC_HINTS[t]]

subcategory_profile_tokens(entries) ==
    [key \in {<<entries[i].topic_id, entries[i].subcategory_id>> :
                 i \in 1..Len(entries)} |->
        UNION {Range(tokenize(entries[i].subcategory_name)) :
                  i \in {k \in 1..Len(entries) :
                            /\ entries[k].topic_id = key[1]
                            /\ entries[k].subcategory_id = key[2]}}]

overlap_score(question_tokens, profile_tokens) ==
    Cardinality(question_tokens \cap profile_tokens)

\* the last topic in index order with the highest score
BestOtherLast(e, q_tokens, profiles) ==
    LET cands == {n \in 1..Len(TopicIndex) :
                     /\ TopicIndex[n] \in DOMAIN profiles
                     /\ TopicIndex[n] # e.topic_id
                     /\ overlap_score(q_tokens, profiles[TopicIndex[n]]) > 0}
        sc(n) == overlap_score(q_tokens, profiles[TopicIndex[n]])
    IN IF cands = {} THEN [topic |-> "", score |-> 0]
       ELSE LET n == CHOOSE n \in cands :
                        \A m \in cands : sc(m) < sc(n) \/ (sc(m) = sc(n) /\ m <= n)
            IN [topic |-> TopicIndex[n], score |-> sc(n)]

\* best_other_topic: the first topic in index order with the highest score
BestOther(e, q_tokens, profiles) ==
    LET cands == {n \in 1..Len(TopicIndex) :
                     /\ TopicIndex[n] \in DOMAIN profiles
                     /\ TopicIndex[n] # e.topic_id
                     /\ overlap_score(q_tokens, profiles[TopicIndex[n]]) > 0}
        sc(n) == overlap_score(q_tokens, profiles[TopicIndex[n]])
    IN IF cands = {} THEN [topic |-> "", score |-> 0]
       ELSE LET n == CHOOSE n \in cands :
                        \A m \in cands : sc(m) < sc(n) \/ (sc(m) = sc(n) /\ n <= m)
            IN [topic |-> TopicIndex[n], score |-> sc(n)]

\* the relevance flag with reason (b) decided by best_other_score >= 3 alone
RelevanceFlagLoose(e, profiles_by_topic, profiles_by_subcat) ==
    LET own_topic_profile == IF e.topic_id \in DOMAIN profiles_by_topic
                             THEN profiles_by_topic[e.topic_id] ELSE {}
        sk == <<e.topic_id, e.subcategory_id>>
        own_subcat_profile == IF sk \in DOMAIN profiles_by_subcat
                              THEN profiles_by_subcat[sk] ELSE {}
        q_tokens == Range(e.tokens) \cup Range(tokenize(JoinSpace(e.keywords)))
                    \cup Range(tokenize(e.chapter))
        own_topic_score == overlap_score(q_tokens, own_topic_profile)
        own_subcat_score == overlap_score(q_tokens, own_subcat_profile)
        best == BestOther(e, q_tokens, profiles_by_topic)
        low == own_subcat_score = 0 /\ own_topic_score <= 1
        closer == best.score >= 3
    IN [question |-> [question_id |-> e.question_id, topic_id |-> e.topic_id,
                      subcategory_id |-> e.subcategory_id,
                      question |-> e.question],
        own_topic_score |-> own_topic_score,
        own_subcategory_score |-> own_subcat_score,
        best_other_topic |-> best.topic,
        best_other_score |-> best.score,
        reasons |-> (IF low THEN <<<<"low_own_topic_subcategory_overlap">>>> ELSE <<>>)
                    \o (IF closer THEN <<<<"looks_closer_to", best.topic>>>> ELSE <<>>)]

\* the relevance flag of one entry; reasons = <<>> means no flag
RelevanceFlag(e, profiles_by_topic, profiles_by_subcat) ==
    LET own_topic_profile == IF e.topic_id \in DOMAIN profiles_by_topic
                             THEN profiles_by_topic[e.topic_id] ELSE {}
        sk == <<e.topic_id, e.subcategory_id>>
        own_subcat_profile == IF sk \in DOMAIN profiles_by_subcat
                              THEN profiles_by_subcat[sk] ELSE {}
        q_tokens == Range(e.tokens) \cup Range(tokenize(JoinSpace(e.keywords)))
                    \cup Range(tokenize(e.chapter))
        own_topic_score == overlap_score(q_tokens, own_topic_profile)
        own_subcat_score == overlap_score(q_tokens, own_subcat_profile)
        best == BestOther(e, q_tokens, profiles_by_topic)
        low == own_subcat_score = 0 /\ own_topic_score <= 1
        closer == best.score >= 3 /\ best.score >= own_topic_score + 2
    IN [question |-> [question_id |-> e.question_id, topic_id |-> e.topic_id,
                      subcategory_id |-> e.subcategory_id,
                      question |-> e.question],
        own_topic_score |-> own_topic_score,
        own_subcategory_score |-> own_subcat_score,
        best_other_topic |-> best.topic,
        best_other_score |-> best.score,
        reasons |-> (IF low THEN <<<<"low_own_topic_subcategory_overlap">>>> ELSE <<>>)
                    \o (IF closer THEN <<<<"looks_closer_to", best.topic>>>> ELSE <<>>)]

\* the sort key (own_subcategory_score, own_topic_score, -best_other_score)
FlagKeyLE(a, b) ==
    \/ a.own_subcategory_score < b.own_subcategory_score
    \/ /\ a.own_subcategory_score = b.own_subcategory_score
       /\ \/ a.own_topic_score < b.own_topic_score
          \/ /\ a.own_topic_score = b.own_topic_score
             /\ a.best_other_score >= b.best_other_score

RECURSIVE InsertFlag(_, _)
InsertFlag(sorted, f) ==
    IF sorted = <<>> THEN <<f>>
    ELSE IF FlagKeyLE(Head(sorted), f)
         THEN <<Head(sorted)>> \o InsertFlag(Tail(sorted), f)
         ELSE <<f>> \o sorted

\* build_audit: the sorted relevance flags
relevance_flags(entries) ==
    LET pt == topic_profile_tokens(entries)
        ps == subcategory_profile_tokens(entries)
        F[i \in 0..Len(entries)] ==
            IF i = 0 THEN <<>>
            ELSE LET f == RelevanceFlag(entries[i], pt, ps)
                 IN IF entries[i].tokens = <<>> \/ f.reasons = <<>>
                    THEN F[i - 1]
                    ELSE InsertFlag(F[i - 1], f)
    IN F[Len(entries)]

(***************************************************************************)
(* Audit: duplicate ids, exact duplicate texts and near duplicates.        *)
(***************************************************************************)
summarize_entry(e) ==
    [question_id |-> e.question_id, topic_id |-> e.topic_id,
     subcategory_id |-> e.subcategory_id, question |-> e.question]

\* the order of str on the characters of identifiers and normalized texts
CodePoints == <<" ","0","1","2","3","4","5","6","7","8","9","A","B","C","D",
                "E","F","G","H","I","J","K","L","M","N","O","P","Q","R","S",
                "T","U","V","W","X","Y","Z","_","a","b","c","d","e","f","g",
                "h","i","j","k","l","m","n","o","p","q","r","s","t","u","v",
                "w","x","y","z">>
CharRank(c) ==
    IF \E n \in 1..Len(CodePoints) : CodePoints[n] = c
    THEN CHOOSE n \in 1..Len(CodePoints) : CodePoints[n] = c
    ELSE 0

RECURSIVE TextLess(_, _)
TextLess(a, b) ==
    IF b = <<>> THEN FALSE
    ELSE IF a = <<>> THEN TRUE
    ELSE IF Head(a) = Head(b) THEN TextLess(Tail(a), Tail(b))
    ELSE CharRank(Head(a)) < CharRank(Head(b))

\* sorted(d.items()): the keys of a dict in the order of str
RECURSIVE SortedTexts(_)
SortedTexts(S) ==
    IF S = {} THEN <<>>
    ELSE LET m == CHOOSE x \in S : \A y \in S \ {x} : TextLess(x, y)
         IN <<m>> \o SortedTexts(S \ {m})

\* duplicate_ids: entries with a non-empty id, grouped; groups of more than one
duplicate_ids(entries) ==
    LET withId == SelectSeq(entries, LAMBDA e : e.question_id # "")
        of(qid) == SelectSeq(withId, LAMBDA e : e.question_id = qid)
        ids == {withId[i].question_id : i \in 1..Len(withId)}
        dup == SortedTexts({IdText(qid) : qid \in {x \in ids : Len(of(x)) > 1}})
    IN [n \in 1..Len(dup) |->
          LET qid == CHOOSE x \in ids : IdText(x) = dup[n]
          IN [qid |-> qid,
              items |-> [i \in 1..Len(of(qid)) |-> summarize_entry(of(qid)[i])]]]

\* exact_duplicate_text: entries with a non-empty normalized text, grouped
exact_duplicate_text(entries) ==
    LET withText == SelectSeq(entries, LAMBDA e : e.norm_question # <<>>)
        of(txt) == SelectSeq(withText, LAMBDA e : e.norm_question = txt)
        txts == {withText[i].norm_question : i \in 1..Len(withText)}
        dup == SortedTexts({x \in txts : Len(of(x)) > 1})
    IN [n \in 1..Len(dup) |->
          [txt |-> dup[n],
           items |-> [i \in 1..Len(of(dup[n])) |-> summarize_entry(of(dup[n])[i])]]]

\* SequenceMatcher.find_longest_match without junk: the longest block, the
\* earliest in a, then the earliest in b; <<0, 0, 0>> when nothing matches
find_longest_match(a, b, alo, ahi, blo, bhi) ==
    LET blocks == {blk \in (alo..ahi) \X (blo..bhi) \X (1..(ahi - alo + 1)) :
                      /\ blk[1] + blk[3] - 1 <= ahi
                      /\ blk[2] + blk[3] - 1 <= bhi
                      /\ \A x \in 0..(blk[3] - 1) : a[blk[1] + x] = b[blk[2] + x]}
    IN IF blocks = {} THEN <<0, 0, 0>>
       ELSE CHOOSE m \in blocks :
               \A o \in blocks :
                  \/ o[3] < m[3]
                  \/ o[3] = m[3] /\ m[1] < o[1]
                  \/ o[3] = m[3] /\ m[1] = o[1] /\ m[2] <= o[2]

\* get_matching_blocks: the total size of the blocks found left and right
RECURSIVE matching_size(_, _, _, _, _, _)
matching_size(a, b, alo, ahi, blo, bhi) ==
    IF alo > ahi \/ blo > bhi THEN 0
    ELSE LET m == find_longest_match(a, b, alo, ahi, blo, bhi)
         IN IF m[3] = 0 THEN 0
            ELSE m[3]
                 + matching_size(a, b, alo, m[1] - 1, blo, m[2] - 1)
                 + matching_size(a, b, m[1] + m[3], ahi, m[2] + m[3], bhi)

\* SequenceMatcher(None, a, b).ratio() = 2.0 * M / T as the pair <<2M, T>>
ratio(a, b) ==
    IF Len(a) + Len(b) = 0 THEN <<1, 1>>
    ELSE <<2 * matching_size(a, b, 1, Len(a), 1, Len(b)), Len(a) + Len(b)>>

\* ratio >= near_dup_threshold, the threshold in hundredths
RatioAtLeast(r, threshold) == 100 * r[1] >= threshold * r[2]

\* round(ratio, 4) in ten-thousandths
similarity(r) == (20000 * r[1] + r[2]) \div (2 * r[2])

\* the bucket key (sig, length_bucket) of an entry
BucketKey(e) ==
    <<SubSeq(e.tokens, 1, IF Len(e.tokens) < 4 THEN Len(e.tokens) ELSE 4),
      Len(e.tokens) \div 4>>

\* the pairs of the whole corpus, compared without buckets
AllPairs(entries) ==
    {pr \in (1..Len(entries)) \X (1..Len(entries)) : pr[1] < pr[2]}

\* the pairs compared: positions i < j of one bucket
BucketPairs(entries) ==
    {pr \in (1..Len(entries)) \X (1..Len(entries)) :
        /\ pr[1] < pr[2]
        /\ BucketKey(entries[pr[1]]) = BucketKey(entries[pr[2]])}

\* the first position of the bucket of position i
BucketFirst(entries, i) ==
    CHOOSE f \in 1..i :
        /\ BucketKey(entries[f]) = BucketKey(entries[i])
        /\ \A g \in 1..(f - 1) : BucketKey(entries[g]) # BucketKey(entries[i])

\* the near-duplicate test without the comparison of the two texts
NearPairAlsoIdentical(entries, pr, threshold) ==
    /\ entries[pr[1]].norm_question # <<>>
    /\ entries[pr[2]].norm_question # <<>>
    /\ RatioAtLeast(ratio(entries[pr[1]].norm_question,
                          entries[pr[2]].norm_question), threshold)

NearPair(entries, pr, threshold) ==
    /\ entries[pr[1]].norm_question # <<>>
    /\ entries[pr[2]].norm_question # <<>>
    /\ entries[pr[1]].norm_question # entries[pr[2]].norm_question
    /\ RatioAtLeast(ratio(entries[pr[1]].norm_question,
                          entries[pr[2]].norm_question), threshold)

NearRecord(entries, pr) ==
    [similarity |-> similarity(ratio(entries[pr[1]].norm_question,
                                     entries[pr[2]].norm_question)),
     a |-> summarize_entry(entries[pr[1]]),
     b |-> summarize_entry(entries[pr[2]]),
     idx |-> pr]

\* the pairs in the order the buckets and their positions are visited
RECURSIVE PairsInOrder(_, _)
PairsInOrder(entries, P) ==
    IF P = {} THEN <<>>
    ELSE LET key(pr) == <<BucketFirst(entries, pr[1]), pr[1], pr[2]>>
             less(x, y) == \/ x[1] < y[1]
                           \/ x[1] = y[1] /\ x[2] < y[2]
                           \/ x[1] = y[1] /\ x[2] = y[2] /\ x[3] <= y[3]
             m == CHOOSE pr \in P : \A o \in P : less(key(pr), key(o))
         IN <<m>> \o PairsInOrder(entries, P \ {m})

\* sorted(..., key=similarity, reverse=True): stable
RECURSIVE InsertNear(_, _)
InsertNear(sorted, r) ==
    IF sorted = <<>> THEN <<r>>
    ELSE IF Head(sorted).similarity >= r.similarity
         THEN <<Head(sorted)>> \o InsertNear(Tail(sorted), r)
         ELSE <<r>> \o sorted

near_duplicates(entries, threshold) ==
    LET found == PairsInOrder(entries,
                    {pr \in BucketPairs(entries) : NearPair(entries, pr, threshold)})
        F[n \in 0..Len(found)] ==
            IF n = 0 THEN <<>>
            ELSE InsertNear(F[n - 1], NearRecord(entries, found[n]))
    IN F[Len(found)]

StageRecord(st) ==
    [stage |-> st, apply |-> FALSE, result |-> "done", actions |-> <<>>,
     written |-> {}, before |-> disk]

\* main of the audit: collect_entries, build_audit, the JSON report
AuditRun ==
    /\ stage = "idle"
    /\ Len(runs) < budget
    /\ topics_file = "ok"
    /\ ~LoadRaises(disk)
    /\ auditFile' = relevance_flags(collect_entries(disk))
    /\ auditIds' = duplicate_ids(collect_entries(disk))
    /\ auditExact' = exact_duplicate_text(collect_entries(disk))
    /\ auditNear' = near_duplicates(collect_entries(disk), near_threshold)
    /\ runs' = Append(runs, StageRecord("audit"))
    /\ UNCHANGED <<inputs, cleanupFile, dedupeFile, loaded, disk, queueFile, batchFile,
                   reconcileFile, stage, pc, apply, file_data, norms_by_topic,
                   cursor, actions, changed_files, pending, written, disk0, last>>

\* load_json raises in collect_entries
AuditCrash ==
    /\ stage = "idle"
    /\ Len(runs) < budget
    /\ topics_file # "ok" \/ LoadRaises(disk)
    /\ runs' = Append(runs, CrashRecord("audit", FALSE))
    /\ UNCHANGED <<inputs, reports, loaded, disk, queueFile, batchFile,
                   reconcileFile, stage, pc, apply, file_data, norms_by_topic,
                   cursor, actions, changed_files, pending, written, disk0, last>>

(***************************************************************************)
(* Review queue builder: build_relevance_review_queue.py.                  *)
(***************************************************************************)
IsLooksCloser(r) == r[1] = "looks_closer_to"

high_conf_loose(item) ==
    /\ item.own_topic_score = 0
    /\ item.own_subcategory_score = 0
    /\ item.best_other_score >= 3
    /\ SelectSeq(item.reasons, IsLooksCloser) # <<>>

\* the filter without the two own-score tests
high_conf_other_only(item) ==
    /\ item.best_other_score >= 4
    /\ SelectSeq(item.reasons, IsLooksCloser) # <<>>

high_conf(item) ==
    /\ item.own_topic_score = 0
    /\ item.own_subcategory_score = 0
    /\ item.best_other_score >= 4
    /\ SelectSeq(item.reasons, IsLooksCloser) # <<>>

QueueItem(item) ==
    [question_id |-> item.question.question_id,
     source_topic |-> item.question.topic_id,
     source_subcategory |-> item.question.subcategory_id,
     question |-> item.question.question,
     suggested_target_topic |-> item.best_other_topic,
     own_topic |-> item.own_topic_score,
     own_subcategory |-> item.own_subcategory_score,
     best_other |-> item.best_other_score]

\* the rank of a topic id in string order ("" first)
TopicRank(t) ==
    IF t \in TopicIds
    THEN CHOOSE i \in 1..Len(SortedTopicIds) : SortedTopicIds[i] = t
    ELSE 0

\* the sort key (own_subcategory, own_topic, -best_other, source_topic)
QueueKeyLE(a, b) ==
    \/ a.own_subcategory < b.own_subcategory
    \/ /\ a.own_subcategory = b.own_subcategory
       /\ \/ a.own_topic < b.own_topic
          \/ /\ a.own_topic = b.own_topic
             /\ \/ a.best_other > b.best_other
                \/ /\ a.best_other = b.best_other
                   /\ TopicRank(a.source_topic) <= TopicRank(b.source_topic)

RECURSIVE InsertQueueItem(_, _)
InsertQueueItem(sorted, it) ==
    IF sorted = <<>> THEN <<it>>
    ELSE IF QueueKeyLE(Head(sorted), it)
         THEN <<Head(sorted)>> \o InsertQueueItem(Tail(sorted), it)
         ELSE <<it>> \o sorted

BuildQueue(flags) ==
    LET F[i \in 0..Len(flags)] ==
            IF i = 0 THEN <<>>
            ELSE IF high_conf(flags[i])
                 THEN InsertQueueItem(F[i - 1], QueueItem(flags[i]))
                 ELSE F[i - 1]
    IN F[Len(flags)]

\* main of the queue builder: the audit report in, the review queue out
QueueBuild ==
    /\ stage = "idle"
    /\ Len(runs) < budget
    /\ queueFile' = BuildQueue(auditFile)
    /\ runs' = Append(runs, StageRecord("queue"))
    /\ UNCHANGED <<inputs, reports, loaded, disk, batchFile, reconcileFile,
                   stage, pc, apply, file_data, norms_by_topic, cursor, actions,
                   changed_files, pending, written, disk0, last>>

(***************************************************************************)
(* Canonical cross-topic dedupe:                                           *)
(* cleanup_cross_topic_duplicates_canonical.py.                            *)
(***************************************************************************)
\* token_sets of infer_canonical_topic, in the order they are tried
token_sets ==
    <<
      [topic |-> "psr",
       hints |-> <<<<"p","s","r">>,
                   <<"p","u","b","l","i","c"," ","s","e","r","v","i","c","e"," ","r","u","l","e","s">>,
                   <<"g","l",".">>,
                   <<"g","l"," ">>,
                   <<"p","r","o","b","a","t","i","o","n">>,
                   <<"l","e","a","v","e"," ","o","f"," ","a","b","s","e","n","c","e">>>>],
      [topic |-> "financial_regulations",
       hints |-> <<<<"f","i","n","a","n","c","i","a","l"," ","r","e","g","u","l","a","t","i","o","n","s">>,
                   <<"v","i","r","e","m","e","n","t">>,
                   <<"v","o","t","e"," ","b","o","o","k">>,
                   <<"i","m","p","r","e","s","t">>,
                   <<"t","r","e","a","s","u","r","y">>,
                   <<"a","p","p","r","o","p","r","i","a","t","i","o","n">>,
                   <<"w","a","r","r","a","n","t">>>>],
      [topic |-> "procurement_act",
       hints |-> <<<<"p","r","o","c","u","r","e","m","e","n","t">>,
                   <<"b","p","p">>,
                   <<"t","e","n","d","e","r">>,
                   <<"b","i","d"," ","o","p","e","n","i","n","g">>,
                   <<"c","e","r","t","i","f","i","c","a","t","e"," ","o","f"," ","n","o"," ","o","b","j","e","c","t","i","o","n">>>>],
      [topic |-> "constitutional_law",
       hints |-> <<<<"c","o","n","s","t","i","t","u","t","i","o","n">>,
                   <<"f","o","i">>,
                   <<"f","r","e","e","d","o","m"," ","o","f"," ","i","n","f","o","r","m","a","t","i","o","n">>,
                   <<"c","o","n","s","t","i","t","u","t","i","o","n","a","l">>>>],
      [topic |-> "ict_management",
       hints |-> <<<<"i","c","t">>,
                   <<"c","y","b","e","r">>,
                   <<"d","i","g","i","t","a","l">>,
                   <<"e"," ","g","o","v","e","r","n","a","n","c","e">>,
                   <<"s","s","l">>,
                   <<"t","l","s">>>>],
      [topic |-> "competency_framework",
       hints |-> <<<<"n","u","m","e","r","i","c","a","l"," ","r","e","a","s","o","n","i","n","g">>,
                   <<"v","e","r","b","a","l"," ","r","e","a","s","o","n","i","n","g">>,
                   <<"a","n","a","l","y","t","i","c","a","l"," ","r","e","a","s","o","n","i","n","g">>>>],
      [topic |-> "policy_analysis",
       hints |-> <<<<"p","o","l","i","c","y"," ","f","o","r","m","u","l","a","t","i","o","n">>,
                   <<"p","o","l","i","c","y"," ","a","n","a","l","y","s","i","s">>,
                   <<"p","o","l","i","c","y"," ","i","m","p","l","e","m","e","n","t","a","t","i","o","n">>>>],
      [topic |-> "leadership_management",
       hints |-> <<<<"l","e","a","d","e","r","s","h","i","p">>,
                   <<"s","t","r","a","t","e","g","i","c"," ","m","a","n","a","g","e","m","e","n","t">>,
                   <<"n","e","g","o","t","i","a","t","i","o","n">>>>]
    >>

\* h in q
Contains(q, h) ==
    \E p \in 1..(Len(q) - Len(h) + 1) : SubSeq(q, p, p + Len(h) - 1) = h

\* infer_canonical_topic: the first topic with a hint in the text, "" for None
infer_canonical_topic(question_text) ==
    LET q == normalize_text(question_text)
        hits == {n \in 1..Len(token_sets) :
                    \E k \in 1..Len(token_sets[n].hints) :
                        Contains(q, token_sets[n].hints[k])}
    IN IF hits = {} THEN ""
       ELSE token_sets[CHOOSE n \in hits : \A m \in hits : n <= m].topic

\* the keys of locations: (topic_id, sub_id, qid, norm)
LocationKeys(d) ==
    UNION {UNION {{<<t, d[t].subcategories[j].id,
                     QId(iterate_subcategory_questions(d[t].subcategories[j])[i]),
                     normalize_text(strip(QText(
                         iterate_subcategory_questions(d[t].subcategories[j])[i])))>> :
                      i \in 1..Len(iterate_subcategory_questions(d[t].subcategories[j]))} :
                  j \in 1..Len(d[t].subcategories)} :
           t \in Existing(d)}

\* the location that the last (subcategory, position) with this key leaves
LocationEntry(doc, key) ==
    LET at(j) == {i \in 1..Len(iterate_subcategory_questions(doc[j])) :
                     /\ QId(iterate_subcategory_questions(doc[j])[i]) = key[3]
                     /\ normalize_text(strip(QText(
                            iterate_subcategory_questions(doc[j])[i]))) = key[4]}
        js == {j \in 1..Len(doc) : doc[j].id = key[2] /\ at(j) # {}}
        j == CHOOSE j \in js : \A k \in js : k <= j
        i == CHOOSE i \in at(j) : \A k \in at(j) : k <= i
    IN [source_file |-> key[1], index |-> i - 1, nested |-> IsNested(doc[j]),
        subcategory_id |-> key[2]]

load_locations(d) ==
    [key \in LocationKeys(d) |-> LocationEntry(d[key[1]].subcategories, key)]

\* the proposals of a group without the test that the canonical topic is in it
GroupProposalsAnyGroup(group) ==
    LET canonical_topic == infer_canonical_topic(group[1].question)
        others == SelectSeq(group, LAMBDA it : it.topic_id # canonical_topic)
    IN IF group = <<>> \/ canonical_topic = ""
       THEN <<>>
       ELSE [i \in 1..Len(others) |->
               [topic_id |-> others[i].topic_id,
                subcategory_id |-> others[i].subcategory_id,
                question_id |-> others[i].question_id,
                question |-> others[i].question,
                norm_question |-> normalize_text(others[i].question),
                canonical_topic |-> canonical_topic]]

\* the proposals of one exact-duplicate group
GroupProposals(group) ==
    LET canonical_topic == infer_canonical_topic(group[1].question)
        topics_in_group == {group[i].topic_id : i \in 1..Len(group)}
        others == SelectSeq(group, LAMBDA it : it.topic_id # canonical_topic)
    IN IF group = <<>> \/ canonical_topic = "" \/ canonical_topic \notin topics_in_group
       THEN <<>>
       ELSE [i \in 1..Len(others) |->
               [topic_id |-> others[i].topic_id,
                subcategory_id |-> others[i].subcategory_id,
                question_id |-> others[i].question_id,
                question |-> others[i].question,
                norm_question |-> normalize_text(others[i].question),
                canonical_topic |-> canonical_topic]]

ProposalKey(p) == <<p.topic_id, p.subcategory_id, p.question_id>>

\* build_proposals: the proposals of every group, one per location key
build_proposals(groups) ==
    LET G[n \in 0..Len(groups)] ==
            IF n = 0 THEN <<>> ELSE G[n - 1] \o GroupProposals(groups[n].items)
        proposals == G[Len(groups)]
        U[n \in 0..Len(proposals)] ==
            IF n = 0 THEN <<>>
            ELSE IF \E k \in 1..Len(U[n - 1]) :
                       ProposalKey(U[n - 1][k]) = ProposalKey(proposals[n])
                 THEN U[n - 1]
                 ELSE Append(U[n - 1], proposals[n])
    IN U[Len(proposals)]

LocationKey(p) == <<p.topic_id, p.subcategory_id, p.question_id, p.norm_question>>

\* the keys of remove_map in the order they are inserted
RemoveMapKeys(locations, proposals) ==
    LET key(n) == [source_file |-> locations[LocationKey(proposals[n])].source_file,
                   subcategory_id |-> locations[LocationKey(proposals[n])].subcategory_id,
                   nested |-> locations[LocationKey(proposals[n])].nested]
        F[n \in 0..Len(proposals)] ==
            IF n = 0 THEN <<>>
            ELSE IF LocationKey(proposals[n]) \notin DOMAIN locations THEN F[n - 1]
            ELSE IF \E k \in 1..Len(F[n - 1]) : F[n - 1][k] = key(n) THEN F[n - 1]
            ELSE Append(F[n - 1], key(n))
    IN F[Len(proposals)]

\* remove_map[key]: the indices of the located proposals of this key
RemoveMapIndices(locations, proposals, key) ==
    {locations[LocationKey(proposals[n])].index :
        n \in {m \in 1..Len(proposals) :
                  /\ LocationKey(proposals[m]) \in DOMAIN locations
                  /\ locations[LocationKey(proposals[m])].source_file = key.source_file
                  /\ locations[LocationKey(proposals[m])].subcategory_id = key.subcategory_id
                  /\ locations[LocationKey(proposals[m])].nested = key.nested}}

\* the first subcategory with the id and the nested flag of the key (0: none)
DedupeSubPos(doc, key) ==
    LET hits == {j \in 1..Len(doc) :
                    doc[j].id = key.subcategory_id /\ IsNested(doc[j]) = key.nested}
    IN IF hits = {} THEN 0 ELSE CHOOSE j \in hits : \A k \in hits : j <= k

\* one pass of the loop over remove_map
ApplyRemoval(fd, key, indices) ==
    LET doc == fd[key.source_file]
        j == DedupeSubPos(doc, key)
        q_list == iterate_subcategory_questions(doc[j])
        filtered == WithoutIndices(q_list, {i \in 1..Len(q_list) : i - 1 \in indices})
    IN IF j = 0 THEN fd
       ELSE [fd EXCEPT ![key.source_file] =
                [doc EXCEPT ![j] = SetQuestions(doc[j], key.nested, filtered)]]

\* apply_proposals: the documents afterwards and the changed files
apply_proposals(fd, locations, proposals) ==
    LET keys == RemoveMapKeys(locations, proposals)
        G[k \in 0..Len(keys)] ==
            IF k = 0 THEN [data |-> fd, changed |-> {}]
            ELSE [data |-> ApplyRemoval(G[k - 1].data, keys[k],
                               RemoveMapIndices(locations, proposals, keys[k])),
                  changed |-> IF DedupeSubPos(G[k - 1].data[keys[k].source_file],
                                              keys[k]) = 0
                              THEN G[k - 1].changed
                              ELSE G[k - 1].changed \cup {keys[k].source_file}]
    IN G[Len(keys)]

\* main: load_locations, build_proposals, apply_proposals up to its writes
DedupeStart(ap) ==
    /\ stage = "idle"
    /\ Len(runs) < budget
    /\ topics_file = "ok"
    /\ ~LoadRaises(disk)
    /\ stage' = "dedupe"
    /\ pc' = "flush"
    /\ apply' = ap
    /\ disk0' = disk
    /\ LET proposals == build_proposals(auditExact)
           result == IF ap /\ proposals # <<>>
                     THEN apply_proposals(LoadFileData(disk), load_locations(disk),
                                          proposals)
                     ELSE [data |-> LoadFileData(disk), changed |-> {}]
       IN /\ actions' = proposals
          /\ file_data' = result.data
          /\ changed_files' = result.changed
          /\ pending' = result.changed
    /\ UNCHANGED <<inputs, reports, loaded, disk, queueFile, batchFile,
                   reconcileFile, norms_by_topic, cursor, written, last, runs>>

\* load_json of the topic index or of a topic file raises
DedupeCrash(ap) ==
    /\ stage = "idle"
    /\ Len(runs) < budget
    /\ topics_file # "ok" \/ LoadRaises(disk)
    /\ runs' = Append(runs, CrashRecord("dedupe", ap))
    /\ UNCHANGED <<inputs, reports, loaded, disk, queueFile, batchFile,
                   reconcileFile, stage, pc, apply, file_data, norms_by_topic,
                   cursor, actions, changed_files, pending, written, disk0, last>>

\* for rel in changed: dump_json, in the order of the set
DedupeWrite ==
    /\ stage = "dedupe"
    /\ \E t \in pending :
          /\ disk' = [disk EXCEPT ![t] = Doc(file_data[t])]
          /\ pending' = pending \ {t}
          /\ written' = written \cup {t}
    /\ UNCHANGED <<inputs, reports, loaded, queueFile, batchFile, reconcileFile,
                   stage, pc, apply, file_data, norms_by_topic, cursor, actions,
                   changed_files, disk0, last, runs>>

\* the JSON report
DedupeFinish ==
    /\ stage = "dedupe"
    /\ pending = {}
    /\ dedupeFile' = actions
    /\ runs' = Append(runs, RunRecord("done"))
    /\ Reset
    /\ UNCHANGED <<inputs, auditFile, findings, cleanupFile, disk, queueFile,
                   batchFile, reconcileFile>>

(***************************************************************************)
(* The loads of the batch mover and of the reconciler that raise.          *)
(***************************************************************************)
\* load_topic_data: load_json of the topic index or of a topic file raises
MoverCrash(ap) ==
    /\ stage = "idle"
    /\ Len(runs) < budget
    /\ topics_file # "ok" \/ LoadRaises(disk)
    /\ runs' = Append(runs, CrashRecord("mover", ap))
    /\ UNCHANGED <<inputs, reports, loaded, disk, queueFile, batchFile,
                   reconcileFile, stage, pc, apply, file_data, norms_by_topic,
                   cursor, actions, changed_files, pending, written, disk0, last>>

\* main of the reconciler: load_json of the topic index or a topic file raises
ReconCrash ==
    /\ stage = "idle"
    /\ Len(runs) < budget
    /\ topics_file # "ok" \/ LoadRaises(disk)
    /\ runs' = Append(runs, CrashRecord("reconciler", FALSE))
    /\ UNCHANGED <<inputs, reports, loaded, disk, queueFile, batchFile,
                   reconcileFile, stage, pc, apply, file_data, norms_by_topic,
                   cursor, actions, changed_files, pending, written, disk0, last>>

(***************************************************************************)
(* The corpus and the queues the behaviours start from.                    *)
(***************************************************************************)
SeqsUpTo(S, n) == UNION {[1..k -> S] : k \in 0..n}

TopicA == "general_current_affairs"
TopicB == "procurement_act"
TopicC == "policy_analysis"

\* the topic files: two topics given, the third file missing
CorpusOf(a, b) ==
    [t \in TopicIds |-> IF t = TopicA THEN a ELSE IF t = TopicB THEN b ELSE Missing]

T_BPP == <<"B","P","P">>
T_bpp == <<"b","p","p","?">>
T_News == <<"N","e","w","s">>
T_None == <<"?">>

Question(id, text) == [id |-> id, question |-> text]
Flat(sid, qs) == [id |-> sid, questions |-> qs]
Nested(sid, qs) == [id |-> sid, questions |-> <<[key |-> sid, val |-> qs]>>]
Shapes(sid, qs) == {Flat(sid, qs), Nested(sid, qs)}

QuestionsA == {Question(id, t) : id \in {"q1", "q2"}, t \in {T_BPP, T_News}}
QuestionsB == {Question("q9", T_bpp)}

DocsA ==
    {Doc(<<sub>>) : sub \in UNION {Shapes("ca_general", qs) :
                                     qs \in SeqsUpTo(QuestionsA, MaxQs)}}
DocsB ==
    {Missing}
    \cup {Doc(<<Flat("proc_other", qs)>>) : qs \in SeqsUpTo(QuestionsB, 1)}
    \cup {Doc(<<sub>>) : sub \in UNION {Shapes("proc_objectives_institutions", qs) :
                                          qs \in SeqsUpTo(QuestionsB, 1)}}

Item(qid, text, score) ==
    [question_id |-> qid, source_topic |-> TopicA,
     source_subcategory |-> "ca_general", question |-> text,
     suggested_target_topic |-> TopicB, own_topic |-> 0,
     own_subcategory |-> 0, best_other |-> score]

QueueItems ==
    {Item("q1", T_BPP, 5), Item("q2", T_BPP, 5), Item("q2", T_BPP, 4),
     Item("q1", T_News, 5), Item("q1", T_BPP, 3)}

InitIdle ==
    /\ stage = "idle"
    /\ pc = "idle"
    /\ apply = FALSE
    /\ file_data = <<>>
    /\ topic_to_subcats = <<>>
    /\ question_lookup = <<>>
    /\ norms_by_topic = <<>>
    /\ items = <<>>
    /\ cursor = 0
    /\ actions = <<>>
    /\ changed_files = {}
    /\ pending = {}
    /\ written = {}
    /\ disk0 = <<>>
    /\ last = NoLast
    /\ runs = <<>>
    /\ auditFile = <<>>
    /\ cleanupFile = <<>>
    /\ auditIds = <<>>
    /\ auditNear = <<>>
    /\ dedupeFile = <<>>

InitMover ==
    /\ topics_file = "ok"
    /\ \E a \in DocsA, b \in DocsB :
          disk = CorpusOf(a, b)
    /\ queueFile \in SeqsUpTo(QueueItems, MaxItems)
    /\ batchFile = <<>>
    /\ reconcileFile = <<>>
    /\ min_score = 4
    /\ near_threshold = NEAR_THRESHOLD_DEFAULT
    /\ auditExact = <<>>
    /\ require_signal \in BOOLEAN
    /\ budget = MaxRuns
    /\ InitIdle

NextMover ==
    \/ \E ap \in BOOLEAN : MoverStart(ap)
    \/ MoverItem
    \/ MoverWrite
    \/ MoverFinish

SpecMover == InitMover /\ [][NextMover]_vars

(***************************************************************************)
(* Claims about the batch mover.                                           *)
(***************************************************************************)
\* the loop body just handled an item of an apply run and its mutation failed
MoveFailed(l) == l.path = "move" /\ ~(l.moved_in /\ l.removed)
RemoveFailed(l) == l.path = "dup" /\ ~l.removed

\* C1: in an apply run, an item whose move fails in either half (append at
\* the target, removal at the source) leaves the source and the target
\* question lists exactly as they were before the item was processed.
C1_FailedMoveLeavesBothSides ==
    [][(stage = "mover" /\ apply /\ cursor' = cursor + 1 /\ MoveFailed(last'))
          => file_data' = file_data]_vars

\* C3: two apply runs of the batch mover in a row over the same queue: the
\* second run records no action.
C3_SecondApplyRunHasNoActions ==
    \A k \in 1..(Len(runs) - 1) :
        (/\ runs[k].stage = "mover" /\ runs[k].apply /\ runs[k].result = "done"
         /\ runs[k + 1].stage = "mover" /\ runs[k + 1].apply
         /\ runs[k + 1].result = "done")
            => runs[k + 1].actions = <<>>

\* C6: in an apply run, an item whose mutation fails, on the move path or on
\* the remove-duplicate path, is recorded as skipped_move_failed.
C6_FailedMutationIsRecordedAsSkipped ==
    (stage = "mover" /\ apply /\ (MoveFailed(last) \/ RemoveFailed(last)))
        => actions[Len(actions)].action = "skipped_move_failed"

(***************************************************************************)
(* The reconciler over a corpus and a batch result.                        *)
(***************************************************************************)
BatchAction(kind, qid) ==
    [action |-> kind, question_id |-> qid, source_topic |-> TopicA,
     source_subcategory |-> "ca_general", target_topic |-> TopicB,
     reason |-> "high_confidence_signal_matched"]

BatchActions ==
    {BatchAction(kind, qid) :
        kind \in {"move_to_target", "remove_source_duplicate",
                  "skipped_move_failed"},
        qid \in {"q1", "q2"}}
    \cup {[action |-> "remove_source_duplicate", question_id |-> "q9",
           source_topic |-> TopicB,
           source_subcategory |-> "proc_objectives_institutions",
           target_topic |-> TopicA,
           reason |-> "equivalent_exists_in_target_topic"]}

InitRecon ==
    /\ topics_file = "ok"
    /\ \E a \in DocsA, b \in DocsB :
          disk = CorpusOf(a, b)
    /\ queueFile = <<>>
    /\ batchFile \in SeqsUpTo(BatchActions, MaxItems)
    /\ reconcileFile = <<>>
    /\ min_score = 4
    /\ near_threshold = NEAR_THRESHOLD_DEFAULT
    /\ auditExact = <<>>
    /\ require_signal = TRUE
    /\ budget = MaxRuns
    /\ InitIdle

NextRecon ==
    \/ ReconStart
    \/ ReconItem
    \/ ReconWrite
    \/ ReconFinish

SpecRecon == InitRecon /\ [][NextRecon]_vars

TwoReconcilerRuns(k) ==
    /\ k + 1 <= Len(runs)
    /\ runs[k].stage = "reconciler" /\ runs[k].result = "done"
    /\ runs[k + 1].stage = "reconciler" /\ runs[k + 1].result = "done"

\* C2: a second Reconciler run over the same batch result removes nothing
\* and rewrites no topic file.
C2_SecondReconcileRemovesNothing ==
    \A k \in 1..Len(runs) :
        TwoReconcilerRuns(k)
            => runs[k + 1].actions = <<>> /\ runs[k + 1].written = {}

\* the questions of a topic document
DocQuestions(doc) ==
    UNION {{iterate_subcategory_questions(doc[j])[i] :
              i \in 1..Len(iterate_subcategory_questions(doc[j]))} :
           j \in 1..Len(doc)}

ReconcilerJustRan ==
    /\ stage = "idle"
    /\ Len(runs) > 0
    /\ runs[Len(runs)].stage = "reconciler"
    /\ runs[Len(runs)].result = "done"

\* C4: after a Reconciler run, for every batch action recorded as
\* move_to_target or remove_source_duplicate, the source topic's document
\* holds no question with the action's id whose normalized text also appears
\* in the target topic's document.
C4_NoLeftoverAfterReconcile ==
    ReconcilerJustRan =>
        \A n \in 1..Len(batchFile) :
            LET a == batchFile[n]
            IN (/\ a.action \in {"move_to_target", "remove_source_duplicate"}
                /\ disk[a.source_topic].kind = "doc"
                /\ disk[a.target_topic].kind = "doc")
               => \A q \in DocQuestions(disk[a.source_topic].subcategories) :
                     ~(/\ QId(q) = a.question_id
                       /\ normalize_text(QText(q)) \in
                             DocNorms(disk[a.target_topic].subcategories))

(***************************************************************************)
(* The safe duplicate cleanup over a corpus with duplicates inside a       *)
(* subcategory, across subcategories and across topics.                    *)
(***************************************************************************)
QuestionsClean ==
    {Question("q1", T_BPP), Question("q2", T_bpp), Question("q3", T_News),
     Question("q4", T_None)}

DocsCleanA ==
    {Doc(<<s1, s2>>) :
        s1 \in UNION {Shapes("ca_general", qs) : qs \in SeqsUpTo(QuestionsClean, MaxQs)},
        s2 \in {Flat("ca_other", qs) : qs \in SeqsUpTo(QuestionsClean, 1)}}

DocsCleanB ==
    {Missing, Malformed}
    \cup {Doc(<<Flat("proc_other", qs)>>) :
             qs \in SeqsUpTo({Question("q9", T_bpp)}, 1)}

InitCleanup ==
    /\ topics_file \in {"ok", "missing"}
    /\ \E a \in DocsCleanA, b \in DocsCleanB :
          disk = CorpusOf(a, b)
    /\ queueFile = <<>>
    /\ batchFile = <<>>
    /\ reconcileFile = <<>>
    /\ min_score = 4
    /\ near_threshold = NEAR_THRESHOLD_DEFAULT
    /\ auditExact = <<>>
    /\ require_signal = TRUE
    /\ budget = MaxRuns
    /\ InitIdle

NextCleanup ==
    \/ \E ap \in BOOLEAN : CleanupStart(ap)
    \/ \E ap \in BOOLEAN : CleanupCrash(ap)
    \/ CleanupFile
    \/ CleanupRaise
    \/ CleanupFinish

SpecCleanup == InitCleanup /\ [][NextCleanup]_vars

\* the positions of a question list that hold the first occurrence of their
\* normalized text, or an empty normalized text
FirstOccurrences(qlist) ==
    {i \in 1..Len(qlist) :
        \/ normalize_text(QText(qlist[i])) = <<>>
        \/ \A k \in 1..(i - 1) :
              normalize_text(QText(qlist[k])) # normalize_text(QText(qlist[i]))}

\* the n-th smallest element of a set of positions
NthOf(S, n) == CHOOSE i \in S : Cardinality({k \in S : k <= i}) = n

\* after is before restricted to the positions of S, in the original order
IsRestriction(after, before, S) ==
    /\ Len(after) = Cardinality(S)
    /\ \A n \in 1..Len(after) : after[n] = before[NthOf(S, n)]

\* C10: every subcategory the safe cleanup has processed holds exactly the
\* questions at the first occurrence of their non-empty normalized text and
\* the questions with an empty normalized text, in the original order; the
\* other subcategories and topics do not matter.  In a dry run this is the
\* document in memory, under --apply it is the topic file.
C10_CleanupKeepsFirstOccurrences ==
    stage = "cleanup" =>
        \A t \in DOMAIN file_data :
            LET before == disk0[t].subcategories
                after == IF apply THEN disk[t].subcategories ELSE file_data[t]
            IN /\ Len(after) = Len(before)
               /\ \A j \in 1..Len(before) :
                     /\ after[j].id = before[j].id
                     /\ IsNested(after[j]) = IsNested(before[j])
                     /\ IsRestriction(iterate_subcategory_questions(after[j]),
                                      iterate_subcategory_questions(before[j]),
                                      FirstOccurrences(
                                          iterate_subcategory_questions(before[j])))

\* an apply run removed a second occurrence from ca_general and kept a
\* question whose text is also in the other subcategory and the other topic
C10_Witness ==
    /\ stage = "cleanup"
    /\ apply
    /\ pc = "flush"
    /\ TopicB \in DOMAIN file_data
    /\ \E n \in 1..Len(actions) : actions[n].subcategory_id = "ca_general"
    /\ Len(disk0[TopicA].subcategories[1].questions) > 0
    /\ \E q \in DocQuestions(<<disk[TopicA].subcategories[1]>>) :
          /\ normalize_text(QText(q)) # <<>>
          /\ normalize_text(QText(q)) \in DocNorms(<<disk[TopicA].subcategories[2]>>)
          /\ normalize_text(QText(q)) \in DocNorms(disk[TopicB].subcategories)

(***************************************************************************)
(* The canonical dedupe over a corpus with exact duplicates across topics  *)
(* and an audit report taken of this corpus or of an earlier one.          *)
(***************************************************************************)
QuestionsDedupeA == {Question("q1", T_BPP), Question("q3", T_News)}
QuestionsDedupeB == {Question("q9", T_bpp), Question("q3", T_News)}

DocsDedupeA ==
    {Doc(<<s1, s2>>) :
        s1 \in UNION {Shapes("ca_general", qs) :
                         qs \in SeqsUpTo(QuestionsDedupeA, MaxQs)},
        s2 \in {Flat("ca_other", qs) : qs \in SeqsUpTo({Question("q2", T_bpp)}, 1)}}

DocsDedupeB ==
    {Missing, Malformed}
    \cup {Doc(<<sub>>) : sub \in UNION {Shapes("proc_other", qs) :
                                          qs \in SeqsUpTo(QuestionsDedupeB, 1)}}

InitDedupe ==
    /\ topics_file \in {"ok", "missing"}
    /\ \E a \in DocsDedupeA, b \in DocsDedupeB, b0 \in DocsDedupeB \ {Malformed} :
          /\ disk = CorpusOf(a, b)
          /\ auditExact = exact_duplicate_text(collect_entries(
                              CorpusOf(a, b0)))
    /\ queueFile = <<>>
    /\ batchFile = <<>>
    /\ reconcileFile = <<>>
    /\ min_score = 4
    /\ near_threshold = NEAR_THRESHOLD_DEFAULT
    /\ require_signal = TRUE
    /\ budget = MaxRuns
    /\ InitIdle

NextDedupe ==
    \/ AuditRun
    \/ AuditCrash
    \/ \E ap \in BOOLEAN : DedupeStart(ap)
    \/ \E ap \in BOOLEAN : DedupeCrash(ap)
    \/ DedupeWrite
    \/ DedupeFinish

SpecDedupe == InitDedupe /\ [][NextDedupe]_vars

\* the occurrences of a normalized text in one topic of a corpus
Occurrences(d, t, txt) ==
    IF d[t].kind # "doc" THEN 0
    ELSE Cardinality(
           {pos \in UNION {{<<j, i>> :
                              i \in 1..Len(iterate_subcategory_questions(
                                               d[t].subcategories[j]))} :
                           j \in 1..Len(d[t].subcategories)} :
               normalize_text(strip(QText(iterate_subcategory_questions(
                   d[t].subcategories[pos[1]])[pos[2]]))) = txt})

GroupTopics(g) == {g.items[i].topic_id : i \in 1..Len(g.items)}

\* the groups of the report for which the dedupe proposes a removal
Processed(g) ==
    /\ infer_canonical_topic(g.items[1].question) # ""
    /\ infer_canonical_topic(g.items[1].question) \in GroupTopics(g)
    /\ GroupTopics(g) # {infer_canonical_topic(g.items[1].question)}

DedupeApplied ==
    /\ stage = "idle"
    /\ runs # <<>>
    /\ runs[Len(runs)].stage = "dedupe"
    /\ runs[Len(runs)].apply
    /\ runs[Len(runs)].result = "done"

\* the report describes the corpus the last run started from
ReportWasCurrent ==
    /\ ~LoadRaises(runs[Len(runs)].before)
    /\ auditExact = exact_duplicate_text(collect_entries(runs[Len(runs)].before))

\* every occurrence that the last run removed belongs to a group whose
\* canonical topic is inferred and present, and is outside that topic
RemovedOnlyFromOtherTopics ==
    \A t \in TopicIds :
        \A txt \in {normalize_text(q.question) :
                      q \in QuestionsDedupeA \cup QuestionsDedupeB} :
            Occurrences(disk, t, txt) < Occurrences(runs[Len(runs)].before, t, txt)
            => \E n \in 1..Len(auditExact) :
                  /\ auditExact[n].txt = txt
                  /\ Processed(auditExact[n])
                  /\ t # infer_canonical_topic(auditExact[n].items[1].question)

ProcessedGroupsSurvive ==
    \A n \in 1..Len(auditExact) :
        Processed(auditExact[n])
        => \E t \in TopicIds : Occurrences(disk, t, auditExact[n].txt) > 0

\* C11 as stated: after every apply run of the canonical dedupe, removals come
\* only from groups with an inferred canonical topic that is in the group,
\* never from the canonical topic, and every processed group still has an
\* occurrence in the corpus.
C11_ProcessedGroupsAlwaysSurvive ==
    DedupeApplied => RemovedOnlyFromOtherTopics /\ ProcessedGroupsSurvive

\* C11: after an apply run of the canonical dedupe, every removed occurrence
\* belongs to a group whose canonical topic is inferred from the text and has
\* an occurrence in the group, and lies outside the canonical topic; when the
\* audit report describes the corpus the run started from, every processed
\* group still has an occurrence in the corpus.
C11_GroupsSurviveUnderCurrentReport ==
    DedupeApplied =>
        /\ RemovedOnlyFromOtherTopics
        /\ ReportWasCurrent => ProcessedGroupsSurvive

\* an apply run under a current report removed the copy outside the canonical
\* topic and kept the one in it
C11_Witness ==
    /\ DedupeApplied
    /\ ReportWasCurrent
    /\ runs[Len(runs)].written = {TopicA}
    /\ Occurrences(disk, TopicA, normalize_text(T_BPP))
         < Occurrences(runs[Len(runs)].before, TopicA, normalize_text(T_BPP))
    /\ Occurrences(disk, TopicB, normalize_text(T_BPP)) > 0

(***************************************************************************)
(* The pipeline end to end: audit scorer, queue builder, batch mover with  *)
(* min_score 4 and the signal required, reconciler, in this order.         *)
(***************************************************************************)
\* the scripts of the scenario, in the order the operator runs them
Pipeline == <<"audit", "queue", "mover", "reconciler">>
NextStage == IF Len(runs) < Len(Pipeline) THEN Pipeline[Len(runs) + 1] ELSE "none"

T_Threshold ==
    <<"W","h","a","t"," ","i","s"," ","t","h","e"," ","B","P","P"," ","p","r","o","c","u","r","e","m","e","n","t"," ","t","h","r","e","s","h","o","l","d","?">>
T_FourHints ==
    <<"B","P","P"," ","p","r","o","c","u","r","e","m","e","n","t"," ","b","i","d"," ","t","e","n","d","e","r">>
T_Award == <<"C","o","n","t","r","a","c","t"," ","a","w","a","r","d">>
T_ThresholdRules == <<"T","h","r","e","s","h","o","l","d"," ","r","u","l","e","s">>

Q1 == Question("q1", T_Threshold)
Q2 == Question("q2", T_FourHints)
FallbackB == TARGET_SUBCATEGORY_DEFAULT[TopicB]

DocsE2EA ==
    {Doc(<<sub>>) :
        sub \in UNION {Shapes("ca_general", qs) :
                          qs \in SeqsUpTo({Q1, Q2, Question("q3", T_News)}, MaxQs)}}

DocsE2EB ==
    {Missing}
    \cup {Doc(<<Flat("proc_other", qs)>>) :
             qs \in SeqsUpTo({Question("q9", T_Award)}, 1)}
    \cup {Doc(<<sub>>) :
             sub \in UNION {Shapes(FallbackB, qs) \cup
                            {[id |-> FallbackB, name |-> T_ThresholdRules,
                              questions |-> qs]} :
                               qs \in SeqsUpTo({Question("q9", T_Award)}, 1)}}

InitE2E ==
    /\ topics_file = "ok"
    /\ \E a \in DocsE2EA, b \in DocsE2EB :
          disk = CorpusOf(a, b)
    /\ queueFile = <<>>
    /\ batchFile = <<>>
    /\ reconcileFile = <<>>
    /\ min_score = 4
    /\ near_threshold = NEAR_THRESHOLD_DEFAULT
    /\ auditExact = <<>>
    /\ require_signal = TRUE
    /\ budget = Len(Pipeline)
    /\ InitIdle

E2EAudit == NextStage = "audit" /\ AuditRun
E2EQueue == NextStage = "queue" /\ QueueBuild
E2EMover == NextStage = "mover" /\ \E ap \in BOOLEAN : MoverStart(ap)
E2EReconciler == NextStage = "reconciler" /\ ReconStart

NextE2E ==
    \/ E2EAudit
    \/ E2EQueue
    \/ E2EMover
    \/ MoverItem
    \/ MoverWrite
    \/ MoverFinish
    \/ E2EReconciler
    \/ ReconItem
    \/ ReconWrite
    \/ ReconFinish

SpecE2E == InitE2E /\ [][NextE2E]_vars

\* the corpus the pipeline started from
Corpus0 == IF runs = <<>> THEN disk ELSE runs[1].before

\* the questions of one subcategory of a topic file (none if it is absent)
HeldIn(d, t, sid) ==
    IF d[t].kind = "doc" /\ SubPos(d[t].subcategories, sid) # 0
    THEN iterate_subcategory_questions(
             d[t].subcategories[SubPos(d[t].subcategories, sid)])
    ELSE <<>>

\* the premises of the scenario for question q: q is held in A/A1, topic
\* procurement_act has the fallback subcategory and no equivalent text
ScenarioFor(q) ==
    /\ q \in Range(HeldIn(Corpus0, TopicA, "ca_general"))
    /\ Corpus0[TopicB].kind = "doc"
    /\ SubPos(Corpus0[TopicB].subcategories, FallbackB) # 0
    /\ normalize_text(QText(q)) \notin DocNorms(Corpus0[TopicB].subcategories)

\* the four stages ran to their end, the mover under --apply
PipelineDone ==
    /\ stage = "idle"
    /\ Len(runs) = Len(Pipeline)
    /\ \A k \in 1..Len(Pipeline) : runs[k].result = "done"
    /\ \A k \in 1..Len(Pipeline) : Pipeline[k] = "mover" => runs[k].apply

\* what the scenario promises for question q
Delivered(q) ==
    /\ \E n \in 1..Len(auditFile) :
          /\ auditFile[n].question.question_id = QId(q)
          /\ <<"looks_closer_to", TopicB>> \in Range(auditFile[n].reasons)
    /\ \E n \in 1..Len(queueFile) : queueFile[n].question_id = QId(q)
    /\ \E n \in 1..Len(batchFile) :
          /\ batchFile[n].action = "move_to_target"
          /\ batchFile[n].question_id = QId(q)
    /\ HeldIn(disk, TopicB, FallbackB) # <<>>
    /\ HeldIn(disk, TopicB, FallbackB)[Len(HeldIn(disk, TopicB, FallbackB))] = q
    /\ q \notin Range(HeldIn(disk, TopicA, "ca_general"))
    /\ runs[Len(Pipeline)].actions = <<>>

HeldOnceWithProfile(q) ==
    /\ Cardinality({i \in 1..Len(HeldIn(Corpus0, TopicA, "ca_general")) :
                       HeldIn(Corpus0, TopicA, "ca_general")[i] = q}) = 1
    /\ Len(queueFile) = 1
    /\ DocQuestions(Corpus0[TopicB].subcategories) # {}

DocsShapesA ==
    {Doc(<<sub>>) :
        sub \in UNION {Shapes("ca_general", qs) :
                          qs \in SeqsUpTo({Question("q1", T_BPP), Question("q2", T_BPP)},
                                          MaxQs)}}

DocsShapesB ==
    {Doc(<<sub>>) : sub \in UNION {Shapes(FallbackB, qs) :
                                      qs \in SeqsUpTo(QuestionsB, 1)}}

InitShapes ==
    /\ topics_file = "ok"
    /\ \E a \in DocsShapesA, b \in DocsShapesB :
          disk = CorpusOf(a, b)
    /\ auditExact = exact_duplicate_text(collect_entries(disk))
    /\ \/ /\ queueFile \in SeqsUpTo({Item("q1", T_BPP, 5), Item("q2", T_BPP, 5)},
                                    MaxItems)
          /\ batchFile = <<>>
       \/ /\ queueFile = <<>>
          /\ batchFile \in SeqsUpTo({BatchAction("move_to_target", "q1"),
                                     BatchAction("remove_source_duplicate", "q2")},
                                    MaxItems)
    /\ reconcileFile = <<>>
    /\ min_score = 4
    /\ near_threshold = NEAR_THRESHOLD_DEFAULT
    /\ require_signal = TRUE
    /\ budget = MaxRuns
    /\ InitIdle

NextShapes ==
    \/ \E ap \in BOOLEAN : CleanupStart(ap)
    \/ CleanupFile
    \/ CleanupFinish
    \/ \E ap \in BOOLEAN : DedupeStart(ap)
    \/ DedupeWrite
    \/ DedupeFinish
    \/ \E ap \in BOOLEAN : MoverStart(ap)
    \/ MoverItem
    \/ MoverWrite
    \/ MoverFinish
    \/ ReconStart
    \/ ReconItem
    \/ ReconWrite
    \/ ReconFinish

SpecShapes == InitShapes /\ [][NextShapes]_vars

\* the subcategory is stored nested-by-id: the first element of its
\* questions is a mapping keyed by the subcategory's own id
StoredNested(sub) ==
    /\ sub.questions # <<>>
    /\ "key" \in DOMAIN sub.questions[1]
    /\ sub.questions[1].key = sub.id

SameShapes(before, after) ==
    \A t \in TopicIds :
        before[t].kind = "doc" =>
            /\ after[t].kind = "doc"
            /\ Len(after[t].subcategories) = Len(before[t].subcategories)
            /\ \A j \in 1..Len(before[t].subcategories) :
                  /\ after[t].subcategories[j].id = before[t].subcategories[j].id
                  /\ StoredNested(after[t].subcategories[j])
                       <=> StoredNested(before[t].subcategories[j])

\* C12: every write of the safe cleanup, the canonical dedupe, the batch mover
\* and the reconciler leaves each subcategory of each topic file in the shape
\* it had: nested-by-id stays nested-by-id, also with an empty inner list, and
\* flat stays flat.
C12_RewritesKeepTheShape ==
    [][SameShapes(disk, disk')]_vars

\* a stage has written a topic file in which a nested subcategory lost its
\* last question and is still nested
C12_Witness ==
    /\ stage \in {"cleanup", "dedupe", "mover", "reconciler"}
    /\ written # {}
    /\ \E t \in written :
          /\ StoredNested(disk0[t].subcategories[1])
          /\ disk0[t].subcategories[1].questions[1].val # <<>>
          /\ StoredNested(disk[t].subcategories[1])
          /\ disk[t].subcategories[1].questions[1].val = <<>>

(***************************************************************************)
(* The audit scorer and the queue builder over a corpus of three topics    *)
(* whose questions overlap the topic profiles in different degrees.        *)
(***************************************************************************)
T_Evaluation ==
    <<"E","v","a","l","u","a","t","i","o","n">>
T_Renew ==
    <<"R","e","n","e","w"," ","l","i","c","e","n","s","e">>
T_TwoOwnThreeOther ==
    <<"R","e","c","e","n","t"," ","n","e","w","s",":"," ","B","P","P"," ","t","e","n","d","e","r"," ","b","i","d">>
T_OneOwnThreeOther ==
    <<"N","e","w","s",":"," ","B","P","P"," ","t","e","n","d","e","r"," ","b","i","d">>
T_OwnSubFourOther ==
    <<"G","e","n","e","r","a","l"," ","B","P","P"," ","b","i","d"," ","t","e","n","d","e","r"," ","a","w","a","r","d">>
T_PolicyWins ==
    <<"E","v","a","l","u","a","t","i","o","n"," ","p","o","l","i","c","y"," ","p","l","a","n","n","i","n","g"," ","t","e","n","d","e","r">>
T_TieAtThree ==
    <<"E","v","a","l","u","a","t","i","o","n"," ","p","o","l","i","c","y"," ","p","l","a","n","n","i","n","g"," ","b","i","d"," ","t","e","n","d","e","r">>
T_PolicyPlanning ==
    <<"P","o","l","i","c","y"," ","p","l","a","n","n","i","n","g">>

QuestionsScoreA ==
    {Question("q1", T_FourHints), Question("q2", T_Threshold),
     Question("q3", T_Evaluation), Question("q4", T_Renew),
     Question("q1", T_TwoOwnThreeOther), Question("q2", T_OneOwnThreeOther),
     Question("q3", T_OwnSubFourOther), Question("q4", T_PolicyWins),
     Question("q9", T_TieAtThree),
     [id |-> "q9", question |-> T_None, keywords |-> <<T_FourHints>>],
     [id |-> "q4", question |-> T_Renew, keywords |-> <<T_bpp>>,
      chapter |-> T_ThresholdRules]}

DocsScoreA ==
    {Doc(<<Flat("ca_general", qs)>>) : qs \in SeqsUpTo(QuestionsScoreA, MaxQs)}

DocsScoreB ==
    {Missing, Doc(<<Flat("proc_other", <<>>)>>),
     Doc(<<Nested("proc_other", <<Question("q9", T_bpp)>>)>>)}

DocsScoreC ==
    {Missing, Malformed,
     Doc(<<Flat("pol_analysis_methods", <<Question("q7", T_PolicyPlanning)>>)>>)}

InitAudit ==
    /\ topics_file \in {"ok", "missing"}
    /\ \E a \in DocsScoreA, b \in DocsScoreB, c \in DocsScoreC :
          disk = [t \in TopicIds |->
                    IF t = TopicA THEN a ELSE IF t = TopicB THEN b ELSE c]
    /\ auditExact = <<>>
    /\ queueFile = <<>>
    /\ batchFile = <<>>
    /\ reconcileFile = <<>>
    /\ min_score = 4
    /\ near_threshold = NEAR_THRESHOLD_DEFAULT
    /\ require_signal = TRUE
    /\ budget = MaxRuns
    /\ InitIdle

NextAudit ==
    \/ AuditRun
    \/ AuditCrash
    \/ QueueBuild

SpecAudit == InitAudit /\ [][NextAudit]_vars

\* the last run is an audit that wrote its report
AuditDone ==
    /\ runs # <<>>
    /\ runs[Len(runs)].stage = "audit"
    /\ runs[Len(runs)].result = "done"

\* the combined token set of an entry: question, keywords and chapter
CombinedTokens(e) ==
    Range(e.tokens) \cup Range(tokenize(JoinSpace(e.keywords)))
    \cup Range(tokenize(e.chapter))

OwnTopicScore(e, entries) ==
    Cardinality(CombinedTokens(e) \cap topic_profile_tokens(entries)[e.topic_id])

OwnSubcategoryScore(e, entries) ==
    Cardinality(CombinedTokens(e)
                \cap subcategory_profile_tokens(entries)[<<e.topic_id, e.subcategory_id>>])

\* the score of another topic: 0 for a topic without entries
OtherScore(e, entries, t) ==
    IF t \in DOMAIN topic_profile_tokens(entries)
    THEN Cardinality(CombinedTokens(e) \cap topic_profile_tokens(entries)[t])
    ELSE 0

BestOtherScore(e, entries) ==
    CHOOSE v \in 0..Cardinality(CombinedTokens(e)) :
        /\ \A t \in TopicIds \ {e.topic_id} : OtherScore(e, entries, t) <= v
        /\ v = 0 \/ \E t \in TopicIds \ {e.topic_id} : OtherScore(e, entries, t) = v

LowOwnOverlap(e, entries) ==
    OwnSubcategoryScore(e, entries) = 0 /\ OwnTopicScore(e, entries) <= 1

LooksCloser(e, entries) ==
    /\ BestOtherScore(e, entries) >= 3
    /\ BestOtherScore(e, entries) >= OwnTopicScore(e, entries) + 2

\* the positions of the entries that the audit scores
Scored(entries) == {i \in 1..Len(entries) : entries[i].tokens # <<>>}

\* C13: after an audit, a question with a non-empty token set has a relevance
\* flag exactly when (a) its own subcategory score is 0 and its own topic score
\* is at most 1, or (b) its best other score is at least 3 and at least its own
\* topic score plus 2; the reasons of a flag hold low_own_topic_subcategory_overlap
\* exactly when (a) holds and looks_closer_to:<best_other_topic> exactly when (b)
\* holds, and questions without tokens have no flag.
C13_FlagIffLowOwnOrCloserOther ==
    AuditDone =>
        LET entries == collect_entries(disk)
            flagged == {i \in Scored(entries) :
                           LowOwnOverlap(entries[i], entries)
                           \/ LooksCloser(entries[i], entries)}
        IN /\ Len(auditFile) = Cardinality(flagged)
           /\ \A i \in flagged :
                 \E n \in 1..Len(auditFile) :
                     auditFile[n].question = summarize_entry(entries[i])
           /\ \A n \in 1..Len(auditFile) :
                 \E i \in flagged :
                     /\ auditFile[n].question = summarize_entry(entries[i])
                     /\ <<"low_own_topic_subcategory_overlap">>
                            \in Range(auditFile[n].reasons)
                        <=> LowOwnOverlap(entries[i], entries)
                     /\ <<"looks_closer_to", auditFile[n].best_other_topic>>
                            \in Range(auditFile[n].reasons)
                        <=> LooksCloser(entries[i], entries)
                     /\ Len(auditFile[n].reasons)
                          = (IF LowOwnOverlap(entries[i], entries) THEN 1 ELSE 0)
                            + (IF LooksCloser(entries[i], entries) THEN 1 ELSE 0)

\* an audit flagged one question for (b) alone and left a question with two
\* own-topic and three other-topic tokens unflagged
C13_Witness ==
    /\ AuditDone
    /\ \E n \in 1..Len(auditFile) :
          /\ auditFile[n].reasons = <<<<"looks_closer_to", TopicB>>>>
          /\ auditFile[n].own_subcategory_score > 0
    /\ \A n \in 1..Len(auditFile) :
          auditFile[n].question.question # T_TwoOwnThreeOther
    /\ \E i \in 1..Len(collect_entries(disk)) :
          /\ collect_entries(disk)[i].question = T_TwoOwnThreeOther
          /\ OwnTopicScore(collect_entries(disk)[i], collect_entries(disk)) = 2
          /\ BestOtherScore(collect_entries(disk)[i], collect_entries(disk)) = 3

\* the topics other than the entry's own that reach its best other score
BestOthers(e, entries) ==
    {n \in 1..Len(TopicIndex) :
        /\ TopicIndex[n] # e.topic_id
        /\ OtherScore(e, entries, TopicIndex[n]) = BestOtherScore(e, entries)}

FirstBestOther(e, entries) ==
    TopicIndex[CHOOSE n \in BestOthers(e, entries) :
                  \A m \in BestOthers(e, entries) : n <= m]

\* C14 as stated: the best_other_topic of every flag is the first topic of the
\* topic index, among the topics other than the question's own, that reaches
\* the maximum overlap score with the question's combined token set.
C14_FirstTopicWithMaximumScore ==
    AuditDone =>
        \A n \in 1..Len(auditFile) :
            \E i \in Scored(collect_entries(disk)) :
                /\ auditFile[n].question = summarize_entry(collect_entries(disk)[i])
                /\ auditFile[n].best_other_score
                     = BestOtherScore(collect_entries(disk)[i], collect_entries(disk))
                /\ auditFile[n].best_other_topic
                     = FirstBestOther(collect_entries(disk)[i], collect_entries(disk))

\* C14: the best_other_topic of every flag is the first topic of the topic
\* index, among the topics other than the question's own that have an entry
\* and a positive overlap score with the combined token set, that reaches the
\* maximum of these scores; when no other topic scores above 0 the flag has
\* no best_other_topic and best_other_score 0.
C14_FirstTopicWithMaximumPositiveScore ==
    AuditDone =>
        \A n \in 1..Len(auditFile) :
            \E i \in Scored(collect_entries(disk)) :
                /\ auditFile[n].question = summarize_entry(collect_entries(disk)[i])
                /\ auditFile[n].best_other_score
                     = BestOtherScore(collect_entries(disk)[i], collect_entries(disk))
                /\ auditFile[n].best_other_topic
                     = IF BestOtherScore(collect_entries(disk)[i],
                                         collect_entries(disk)) = 0
                       THEN ""
                       ELSE FirstBestOther(collect_entries(disk)[i],
                                           collect_entries(disk))

\* a flag of a question that scores 3 against two other topics names the one
\* that comes first in the topic index, and a flag of a question that scores 0
\* against every other topic names none
C14_Witness ==
    /\ AuditDone
    /\ \E n \in 1..Len(auditFile) :
          /\ auditFile[n].question.question = T_TieAtThree
          /\ auditFile[n].best_other_topic = TopicB
          /\ auditFile[n].best_other_score = 3
          /\ \E i \in 1..Len(collect_entries(disk)) :
                /\ collect_entries(disk)[i].question = T_TieAtThree
                /\ OtherScore(collect_entries(disk)[i], collect_entries(disk), TopicC) = 3
    /\ \E n \in 1..Len(auditFile) :
          /\ auditFile[n].question.question = T_bpp
          /\ auditFile[n].best_other_topic = ""

\* the last run is a queue build, so queueFile was built from auditFile
QueueDone ==
    /\ runs # <<>>
    /\ runs[Len(runs)].stage = "queue"

\* a flag is high confidence: both own scores 0, best other score at least
\* 4 and a looks_closer_to reason
HighConfidence(f) ==
    /\ f.own_topic_score = 0
    /\ f.own_subcategory_score = 0
    /\ f.best_other_score >= 4
    /\ \E k \in 1..Len(f.reasons) : f.reasons[k][1] = "looks_closer_to"

\* the queue item is the item of this flag
ItemOf(it, f) ==
    /\ it.question_id = f.question.question_id
    /\ it.source_topic = f.question.topic_id
    /\ it.source_subcategory = f.question.subcategory_id
    /\ it.question = f.question.question
    /\ it.suggested_target_topic = f.best_other_topic
    /\ it.own_topic = f.own_topic_score
    /\ it.own_subcategory = f.own_subcategory_score
    /\ it.best_other = f.best_other_score

\* C15: after a queue build, the review queue holds an item for a relevance
\* flag exactly when the flag has own_topic_score 0, own_subcategory_score 0,
\* best_other_score at least 4 and a reason looks_closer_to:...; every other
\* flag is left out, and the queue holds nothing else.
C15_QueueIsTheHighConfidenceFlags ==
    QueueDone =>
        /\ Len(queueFile)
             = Cardinality({n \in 1..Len(auditFile) : HighConfidence(auditFile[n])})
        /\ \A n \in 1..Len(auditFile) :
              HighConfidence(auditFile[n])
              <=> \E k \in 1..Len(queueFile) : ItemOf(queueFile[k], auditFile[n])
        /\ \A k \in 1..Len(queueFile) :
              \E n \in 1..Len(auditFile) : ItemOf(queueFile[k], auditFile[n])

\* a queue built from a report with a high-confidence flag, a flag with
\* best_other_score 4 and own scores above 0, and a looks_closer_to flag with
\* best_other_score 3 or a flag without that reason: only the first is queued
C15_Witness ==
    /\ QueueDone
    /\ Len(queueFile) = 1
    /\ queueFile[1].question = T_FourHints
    /\ Len(auditFile) >= 3
    /\ \E n \in 1..Len(auditFile) :
          \/ auditFile[n].best_other_score >= 4 /\ auditFile[n].own_topic_score > 0
          \/ /\ auditFile[n].best_other_score = 3
             /\ auditFile[n].own_topic_score = 0
             /\ auditFile[n].own_subcategory_score = 0
             /\ \E k \in 1..Len(auditFile[n].reasons) :
                   auditFile[n].reasons[k][1] = "looks_closer_to"

(***************************************************************************)
(* The audit over a corpus with repeated ids, repeated texts and texts     *)
(* that differ in a stopword or in one letter, at two thresholds.          *)
(***************************************************************************)
T_RenewLoud ==
    <<"R","e","n","e","w"," ","L","i","c","e","n","s","e","!">>
T_RenewA ==
    <<"r","e","n","e","w"," ","a"," ","l","i","c","e","n","s","e">>
T_Renews ==
    <<"r","e","n","e","w"," ","l","i","c","e","n","s","e","s">>
T_Other ==
    <<"o","t","h","e","r">>

\* a question without an id
NoId(text) == [question |-> text]

QuestionsDupA ==
    {Question("q1", T_Renew), Question("q2", T_RenewLoud),
     Question("q3", T_RenewA), Question("q4", T_Renews),
     Question("q1", T_Other), NoId(T_Other), NoId(T_None)}

DocsDupA ==
    {Doc(<<sub>>) : sub \in UNION {Shapes("ca_general", qs) :
                                      qs \in SeqsUpTo(QuestionsDupA, MaxQs)}}

DocsDupB ==
    {Missing, Malformed}
    \cup {Doc(<<Flat("proc_other", <<q>>)>>) :
             q \in {Question("q1", T_Renew), NoId(T_RenewA)}}

\* --near-threshold 0.92 (the default) or 0.96
NearThresholds == {NEAR_THRESHOLD_DEFAULT, NEAR_THRESHOLD_DEFAULT + 4}

InitDups ==
    /\ topics_file = "ok"
    /\ \E a \in DocsDupA, b \in DocsDupB : disk = CorpusOf(a, b)
    /\ near_threshold \in NearThresholds
    /\ auditExact = <<>>
    /\ queueFile = <<>>
    /\ batchFile = <<>>
    /\ reconcileFile = <<>>
    /\ min_score = 4
    /\ require_signal = TRUE
    /\ budget = MaxRuns
    /\ InitIdle

NextDups ==
    \/ AuditRun
    \/ AuditCrash

SpecDups == InitDups /\ [][NextDups]_vars

\* two entries fall in one bucket: the same first four tokens and the same
\* floor(token count / 4)
SameBucket(a, b) ==
    /\ \A k \in 1..4 : (k <= Len(a.tokens) \/ k <= Len(b.tokens))
                       => /\ k <= Len(a.tokens)
                          /\ k <= Len(b.tokens)
                          /\ a.tokens[k] = b.tokens[k]
    /\ Len(a.tokens) \div 4 = Len(b.tokens) \div 4

\* the pairs of positions that are near-duplicates at the threshold
NearDuplicatePairs(entries, threshold) ==
    {pr \in (1..Len(entries)) \X (1..Len(entries)) :
        /\ pr[1] < pr[2]
        /\ SameBucket(entries[pr[1]], entries[pr[2]])
        /\ entries[pr[1]].norm_question # <<>>
        /\ entries[pr[2]].norm_question # <<>>
        /\ entries[pr[1]].norm_question # entries[pr[2]].norm_question
        /\ 100 * ratio(entries[pr[1]].norm_question, entries[pr[2]].norm_question)[1]
             >= threshold
                * ratio(entries[pr[1]].norm_question, entries[pr[2]].norm_question)[2]}

\* C16: after an audit, the near-duplicate findings are exactly the pairs of
\* entries that fall in the same bucket, have a similarity ratio of at least
\* the threshold and have normalized texts that are non-empty and differ; each
\* unordered pair is reported once.
C16_NearDuplicatesAreTheSimilarBucketPairs ==
    AuditDone =>
        /\ {auditNear[n].idx : n \in 1..Len(auditNear)}
             = NearDuplicatePairs(collect_entries(disk), near_threshold)
        /\ \A n, m \in 1..Len(auditNear) :
              n # m => /\ auditNear[n].idx # auditNear[m].idx
                       /\ auditNear[n].idx # <<auditNear[m].idx[2], auditNear[m].idx[1]>>
        /\ \A n \in 1..Len(auditNear) :
              /\ auditNear[n].a = summarize_entry(collect_entries(disk)[auditNear[n].idx[1]])
              /\ auditNear[n].b = summarize_entry(collect_entries(disk)[auditNear[n].idx[2]])

\* an audit at threshold 0.92 reported "renew license" / "renew a license"
\* (ratio 26/28) and left out "renew license" / "renew licenses" (ratio 26/27,
\* another bucket)
C16_Witness ==
    /\ AuditDone
    /\ near_threshold = NEAR_THRESHOLD_DEFAULT
    /\ \E n \in 1..Len(auditNear) :
          /\ auditNear[n].a.question = T_Renew
          /\ auditNear[n].b.question = T_RenewA
          /\ auditNear[n].similarity = 9286
    /\ \E i, j \in 1..Len(collect_entries(disk)) :
          /\ collect_entries(disk)[i].question = T_Renew
          /\ collect_entries(disk)[j].question = T_Renews
          /\ ratio(collect_entries(disk)[i].norm_question,
                   collect_entries(disk)[j].norm_question) = <<26, 27>>
          /\ \A n \in 1..Len(auditNear) : auditNear[n].b.question # T_Renews

\* the positions of the entries with this normalized text
WithText(entries, txt) == {i \in 1..Len(entries) : entries[i].norm_question = txt}

\* the summaries of the entries at the positions of S, in corpus order
SummariesAt(entries, S) ==
    LET F[i \in 0..Len(entries)] ==
            IF i = 0 THEN <<>>
            ELSE IF i \in S THEN Append(F[i - 1], summarize_entry(entries[i]))
            ELSE F[i - 1]
    IN F[Len(entries)]

\* C17: after an audit, the exact-duplicate findings are exactly the groups of
\* more than one entry that share a non-empty normalized text, one group per
\* text, and no two entries of a group are reported as a near-duplicate pair.
C17_ExactGroupsAreTheSharedTexts ==
    AuditDone =>
        LET entries == collect_entries(disk)
            shared == {txt \in {entries[i].norm_question : i \in 1..Len(entries)} :
                          txt # <<>> /\ Cardinality(WithText(entries, txt)) > 1}
        IN /\ {auditExact[n].txt : n \in 1..Len(auditExact)} = shared
           /\ Len(auditExact) = Cardinality(shared)
           /\ \A n \in 1..Len(auditExact) :
                 auditExact[n].items
                   = SummariesAt(entries, WithText(entries, auditExact[n].txt))
           /\ \A n \in 1..Len(auditNear) :
                 entries[auditNear[n].idx[1]].norm_question
                   # entries[auditNear[n].idx[2]].norm_question

\* an audit of "Renew license", "Renew License!" and "renew a license"
\* reported one group of the first two and one near-duplicate pair with the
\* third
C17_Witness ==
    /\ AuditDone
    /\ Len(auditExact) = 1
    /\ Len(auditExact[1].items) = 2
    /\ auditExact[1].items[1].question = T_Renew
    /\ auditExact[1].items[2].question = T_RenewLoud
    /\ auditExact[1].txt = normalize_text(T_Renew)
    /\ auditNear # <<>>

\* the positions of the entries with this question id
WithId(entries, qid) == {i \in 1..Len(entries) : entries[i].question_id = qid}

\* C18 as stated: after an audit, the duplicate-id findings are exactly the
\* groups of more than one entry that share a question id, over all entries,
\* those without an id or with an empty id included.
C18_DuplicateIdsOverAllEntries ==
    AuditDone =>
        LET entries == collect_entries(disk)
            shared == {qid \in {entries[i].question_id : i \in 1..Len(entries)} :
                          Cardinality(WithId(entries, qid)) > 1}
        IN /\ {auditIds[n].qid : n \in 1..Len(auditIds)} = shared
           /\ Len(auditIds) = Cardinality(shared)
           /\ \A n \in 1..Len(auditIds) :
                 auditIds[n].items
                   = SummariesAt(entries, WithId(entries, auditIds[n].qid))

\* the duplicate-id findings are the groups of more than one entry that share
\* a non-empty question id
C18_DuplicateIdsOverEntriesWithId ==
    AuditDone =>
        LET entries == collect_entries(disk)
            shared == {qid \in {entries[i].question_id : i \in 1..Len(entries)} :
                          qid # "" /\ Cardinality(WithId(entries, qid)) > 1}
        IN /\ {auditIds[n].qid : n \in 1..Len(auditIds)} = shared
           /\ Len(auditIds) = Cardinality(shared)
           /\ \A n \in 1..Len(auditIds) :
                 auditIds[n].items
                   = SummariesAt(entries, WithId(entries, auditIds[n].qid))

\* an audit of a corpus with two entries without id reported no group for them
C18_TwoEntriesWithoutIdUnreported ==
    /\ AuditDone
    /\ Cardinality(WithId(collect_entries(disk), "")) > 1
    /\ \A n \in 1..Len(auditIds) : auditIds[n].qid # ""

(***************************************************************************)
(* normalize_text over every text of a small alphabet, as the loads of the *)
(* batch mover and of the reconciler apply it.                             *)
(***************************************************************************)
NormAlphabet == {"A", "b", "7", " ", "\t", "!", "_"}

InitNormalize ==
    /\ topics_file = "ok"
    /\ \E x \in SeqsUpTo(NormAlphabet, MaxLen) :
          disk = CorpusOf(Doc(<<Flat("ca_general", <<Question("q1", x)>>)>>), Missing)
    /\ near_threshold = NEAR_THRESHOLD_DEFAULT
    /\ auditExact = <<>>
    /\ queueFile = <<>>
    /\ batchFile = <<>>
    /\ reconcileFile = <<>>
    /\ min_score = 4
    /\ require_signal = TRUE
    /\ budget = 1
    /\ InitIdle

NextNormalize ==
    \/ \E ap \in BOOLEAN : MoverStart(ap)
    \/ MoverFinish
    \/ ReconStart
    \/ ReconFinish

SpecNormalize == InitNormalize /\ [][NextNormalize]_vars

\* only a-z, 0-9 and single spaces, none at either end
Canonical(t) ==
    /\ \A i \in 1..Len(t) : t[i] \in LowerSet \cup Digits \cup {" "}
    /\ \A i \in 1..(Len(t) - 1) : ~(t[i] = " " /\ t[i + 1] = " ")
    /\ t # <<>> => t[1] # " " /\ t[Len(t)] # " "

\* the text of the one question of the corpus
TextOnDisk == disk[TopicA].subcategories[1].questions[1].question

\* C19: normalize is idempotent and canonical: normalizing a normalized text
\* changes nothing, and a normalized text holds only a-z, 0-9 and single
\* spaces, with no space at either end; this holds for the text on disk and
\* for every normalized text that a load keeps.
C19_NormalizeIsIdempotentAndCanonical ==
    /\ normalize_text(normalize_text(TextOnDisk)) = normalize_text(TextOnDisk)
    /\ Canonical(normalize_text(TextOnDisk))
    /\ \A t \in DOMAIN norms_by_topic :
          \A n \in norms_by_topic[t] : normalize_text(n) = n /\ Canonical(n)
    /\ stage \in {"mover", "reconciler"} /\ normalize_text(TextOnDisk) # <<>>
          => norms_by_topic[TopicA] = {normalize_text(TextOnDisk)}

\* a load kept "a 7" for a text with a capital, punctuation and a tab
C19_Witness ==
    /\ stage = "mover"
    /\ TextOnDisk = <<"A", "!", "\t", "7">>
    /\ norms_by_topic[TopicA] = {<<"a", " ", "7">>}

(***************************************************************************)
(* The detection of the two subcategory shapes by the loaders of the audit *)
(* and of the batch mover, over subcategories of every shape.              *)
(***************************************************************************)
QuestionsDetect == {Question("q1", T_News), Question("q2", T_BPP)}

\* a flat list whose first element is a map under the key of another
\* subcategory
OtherKey(sid, qs) == [id |-> sid, questions |-> <<[key |-> "ca_other", val |-> qs]>>]
\* the map of the nested shape followed by one more element
NestedThenMore(sid, qs) ==
    [id |-> sid, questions |-> <<[key |-> sid, val |-> qs], Question("q4", T_bpp)>>]
\* the map under the own key, but not as the first element
MapNotFirst(sid, qs) ==
    [id |-> sid, questions |-> <<Question("q4", T_bpp), [key |-> sid, val |-> qs]>>]
\* no questions value, or one that is not a list
NoList(sid) == [id |-> sid]

DocsDetectA ==
    {Doc(<<sub>>) :
        sub \in {NoList("ca_general")}
                \cup UNION {Shapes("ca_general", qs)
                            \cup {OtherKey("ca_general", qs),
                                  NestedThenMore("ca_general", qs),
                                  MapNotFirst("ca_general", qs)} :
                            qs \in SeqsUpTo(QuestionsDetect, MaxQs)}}

DocsDetectB == {Missing, Doc(<<NoList("proc_other")>>),
                Doc(<<Nested("proc_other", <<Question("q9", T_bpp)>>)>>)}

InitDetect ==
    /\ topics_file = "ok"
    /\ \E a \in DocsDetectA, b \in DocsDetectB : disk = CorpusOf(a, b)
    /\ near_threshold = NEAR_THRESHOLD_DEFAULT
    /\ auditExact = <<>>
    /\ queueFile = <<>>
    /\ batchFile = <<>>
    /\ reconcileFile = <<>>
    /\ min_score = 4
    /\ require_signal = TRUE
    /\ budget = 1
    /\ InitIdle

NextDetect ==
    \/ AuditRun
    \/ \E ap \in BOOLEAN : MoverStart(ap)
    \/ MoverFinish

SpecDetect == InitDetect /\ [][NextDetect]_vars

\* the first element of a list of questions is a map with the own id of the
\* subcategory as a key
FirstIsOwnMap(sub) ==
    /\ HasQuestionList(sub)
    /\ sub.questions # <<>>
    /\ IsMap(Head(sub.questions))
    /\ Head(sub.questions).key = sub.id

\* the effective question sequence by the three cases of the rule
EffectiveQuestions(sub) ==
    IF ~HasQuestionList(sub) THEN <<>>
    ELSE IF FirstIsOwnMap(sub) THEN Head(sub.questions).val
    ELSE sub.questions

\* the positions of the effective sequence with this id
PositionsOf(sub, qid) ==
    {i \in 1..Len(EffectiveQuestions(sub)) : QId(EffectiveQuestions(sub)[i]) = qid}

\* the only subcategory of an existing topic file
OnlySub(t) == disk[t].subcategories[1]

\* the load of the batch mover indexed the effective sequence of the
\* subcategory and recorded its shape
MoverLoadedEffective(t) ==
    LET sub == OnlySub(t)
    IN /\ topic_to_subcats[t][sub.id] = FirstIsOwnMap(sub)
       /\ {k \in DOMAIN question_lookup : k[1] = t}
             = {<<t, sub.id, QId(EffectiveQuestions(sub)[i])>> :
                   i \in 1..Len(EffectiveQuestions(sub))}
       /\ \A k \in DOMAIN question_lookup :
             k[1] = t =>
                /\ question_lookup[k].index + 1 \in PositionsOf(sub, k[3])
                /\ question_lookup[k].question
                      = EffectiveQuestions(sub)[question_lookup[k].index + 1]

\* the audit grouped the ids of the effective sequences
AuditReadEffective ==
    /\ \A g \in 1..Len(auditIds) :
          \E t \in Existing(disk) :
             /\ \A i \in 1..Len(auditIds[g].items) : auditIds[g].items[i].topic_id = t
             /\ Len(auditIds[g].items)
                   = Cardinality(PositionsOf(OnlySub(t), auditIds[g].qid))
    /\ \A t \in Existing(disk) :
          \A i \in 1..Len(EffectiveQuestions(OnlySub(t))) :
             LET qid == QId(EffectiveQuestions(OnlySub(t))[i])
             IN qid # "" /\ Cardinality(PositionsOf(OnlySub(t), qid)) > 1
                   => \E g \in 1..Len(auditIds) : auditIds[g].qid = qid
    /\ \A f \in 1..Len(auditFile) :
          \E i \in 1..Len(EffectiveQuestions(OnlySub(auditFile[f].question.topic_id))) :
             QId(EffectiveQuestions(OnlySub(auditFile[f].question.topic_id))[i])
                = auditFile[f].question.question_id

DocsAllA ==
    {Doc(<<Flat("ca_general", qs)>>) :
        qs \in SeqsUpTo({Question("q1", T_BPP), Question("q2", T_BPP)}, MaxQs)}

DocsAllB ==
    {Missing, Malformed, Doc(<<Flat("proc_other", <<Question("q9", T_bpp)>>)>>)}
    \cup {Doc(<<Flat(FallbackB, qs)>>) : qs \in SeqsUpTo(QuestionsB, 1)}

Init ==
    /\ \E a \in DocsAllA, b \in DocsAllB :
          disk = CorpusOf(a, b)
    /\ \/ /\ topics_file = "ok"
          /\ queueFile \in SeqsUpTo({Item("q1", T_BPP, 5), Item("q2", T_BPP, 5)},
                                    MaxItems)
          /\ batchFile = <<>>
       \/ /\ topics_file = "ok"
          /\ queueFile = <<>>
          /\ batchFile \in SeqsUpTo({BatchAction("move_to_target", "q1"),
                                     BatchAction("remove_source_duplicate", "q2")},
                                    MaxItems)
       \/ /\ topics_file = "missing"
          /\ queueFile = <<>>
          /\ batchFile = <<>>
    /\ reconcileFile = <<>>
    /\ min_score = 4
    /\ near_threshold = NEAR_THRESHOLD_DEFAULT
    /\ auditExact = <<>>
    /\ require_signal = TRUE
    /\ budget = MaxRuns
    /\ InitIdle

Next ==
    \/ AuditRun
    \/ AuditCrash
    \/ QueueBuild
    \/ \E ap \in BOOLEAN : CleanupStart(ap)
    \/ \E ap \in BOOLEAN : CleanupCrash(ap)
    \/ CleanupFile
    \/ CleanupRaise
    \/ CleanupFinish
    \/ \E ap \in BOOLEAN : MoverStart(ap)
    \/ \E ap \in BOOLEAN : MoverCrash(ap)
    \/ MoverItem
    \/ MoverWrite
    \/ MoverFinish
    \/ ReconStart
    \/ ReconCrash
    \/ ReconItem
    \/ ReconWrite
    \/ ReconFinish

Spec == Init /\ [][Next]_vars

\* C5: a script running without the apply flag leaves every topic file as
\* it was when the script started.
C5_DefaultInvocationWritesNothing ==
    (stage # "idle" /\ ~apply) => disk = disk0

\* C8: a run of the audit, the batch mover or the reconciler ends in an
\* uncaught exception only when the topic index is absent or unreadable; a
\* missing or malformed topic file is skipped.
C8_OnlyTheTopicIndexAborts ==
    \A k \in 1..Len(runs) :
        (runs[k].stage \in {"audit", "mover", "reconciler"}
         /\ runs[k].result = "crashed")
            => topics_file # "ok"

\* C9 as stated: while the loop of a mutating script (safe cleanup, batch
\* mover, reconciler) is still running, no topic file has been written.
C9_NoWriteBeforeTheLoopEnds ==
    (stage \in {"cleanup", "mover", "reconciler"} /\ pc = "loop")
        => disk = disk0 /\ written = {}

\* C9 (amended): the batch mover and the reconciler write no topic file
\* while their loop is running, and what they write is the document as
\* mutated in memory; the safe cleanup writes a topic file as soon as that
\* file's own transform is complete, so the files of the topics it has not
\* reached are as they were and each file it wrote holds the cleaned document.
C9_WritesFollowTheUnitsTransform ==
    /\ (stage \in {"mover", "reconciler"} /\ pc = "loop")
          => disk = disk0 /\ written = {}
    /\ stage \in {"mover", "reconciler"}
          => \A t \in TopicIds :
                IF t \in written THEN disk[t] = Doc(file_data[t])
                ELSE disk[t] = disk0[t]
    /\ stage = "cleanup"
          => \A t \in TopicIds :
                IF t \in written
                THEN /\ t \in DOMAIN file_data
                     /\ disk[t] = Doc(CleanDocument(disk0[t].subcategories))
                ELSE disk[t] = disk0[t]

\* the batch mover under --apply has moved a question in memory, has another
\* item to process and has written nothing
C9_Witness ==
    /\ stage = "mover"
    /\ apply
    /\ pc = "loop"
    /\ cursor > 0
    /\ changed_files = {TopicA, TopicB}
    /\ file_data # LoadFileData(disk)
    /\ written = {}

(***************************************************************************)
(* The batch mover: what one pass of the loop does to the source list, and *)
(* which texts it takes for present in the target.                         *)
(***************************************************************************)
\* the item the loop body handles in this step
CurrentItem == items[cursor + 1]
CurrentKey ==
    <<CurrentItem.source_topic, CurrentItem.source_subcategory,
      CurrentItem.question_id>>

\* the pass of the loop that handles an item and records an action for it
MoverRecords ==
    /\ stage = "mover"
    /\ pc = "loop"
    /\ cursor' = cursor + 1
    /\ Len(actions') = Len(actions) + 1

\* the effective question list of a subcategory of the loaded documents
ListIn(fd, t, sid) ==
    iterate_subcategory_questions(fd[t][SubPos(fd[t], sid)])

\* an earlier item of the run with an action has the same source
SharesSourceWithEarlier ==
    \E k \in 1..Len(actions) :
        /\ actions[k].source_topic = CurrentItem.source_topic
        /\ actions[k].source_subcategory = CurrentItem.source_subcategory

\* C21: in an apply run where several processed items share one source
\* subcategory, the removal of each item deletes exactly the question that
\* the load located for it: the index is in range, the question at the
\* index is the located one, and the list afterwards is the list without it.
C21_RemovalDeletesTheLocatedQuestion ==
    [][(MoverRecords /\ apply /\ SharesSourceWithEarlier)
          => LET loc == question_lookup[CurrentKey]
                 src == ListIn(file_data, CurrentItem.source_topic,
                               CurrentItem.source_subcategory)
                 after == ListIn(file_data', CurrentItem.source_topic,
                                 CurrentItem.source_subcategory)
             IN /\ loc.index < Len(src)
                /\ src[loc.index + 1] = loc.question
                /\ after = RemoveAt(src, loc.index)]_vars

\* the second item of a run finds the list one shorter than its index
C21_SecondRemovalOutOfRange ==
    /\ stage = "mover"
    /\ apply
    /\ cursor = 2
    /\ disk0[TopicA].subcategories
          = <<Flat("ca_general", <<Question("q1", T_BPP), Question("q2", T_BPP)>>)>>
    /\ items = <<Item("q1", T_BPP, 5), Item("q2", T_BPP, 5)>>
    /\ Len(actions) = 2
    /\ ~last.removed
    /\ ListIn(file_data, TopicA, "ca_general") = <<Question("q2", T_BPP)>>

\* C22: within one run, whether the text of an item exists in the target
\* topic is decided against the normalized texts captured when the corpus
\* was loaded: an item is recorded as remove_source_duplicate exactly when
\* its normalized text is in the target's set as loaded, also after an
\* earlier item of the run was moved into that target.
C22_DuplicateDecidedAgainstLoadedTexts ==
    [][MoverRecords
          => LET norm == normalize_text(CurrentItem.question)
                 loadedNorms == NormsOf(LoadNormsByTopic(disk0),
                                        CurrentItem.suggested_target_topic)
             IN (actions'[Len(actions')].action = "remove_source_duplicate")
                   <=> (norm # <<>> /\ norm \in loadedNorms)]_vars

\* a later item is taken for a duplicate of the question moved before it
C22_MovedTextDetectedAsDuplicate ==
    /\ stage = "mover"
    /\ apply
    /\ Len(actions) = 2
    /\ actions[1].action = "move_to_target"
    /\ actions[2].action = "remove_source_duplicate"
    /\ NormsOf(LoadNormsByTopic(disk0), TopicB) = {}

(***************************************************************************)
(* The batch mover over a queue whose items point in both directions       *)
(* between two topics, lack fields, score low or carry no signal.          *)
(***************************************************************************)
T_BPPNews == <<"B","P","P"," ","n","e","w","s">>
T_bppNews == <<"b","p","p"," ","N","e","w","s","?">>

QuestionsCrossA == {Question("q1", T_BPPNews), Question("q2", T_News)}
QuestionsCrossB == {Question("q9", T_bppNews)}

DocsCrossA ==
    {Doc(<<sub>>) : sub \in UNION {Shapes("ca_general", qs) :
                                     qs \in SeqsUpTo(QuestionsCrossA, MaxQs)}}
DocsCrossB ==
    {Doc(<<sub>>) : sub \in UNION {Shapes(FallbackB, qs) :
                                     qs \in SeqsUpTo(QuestionsCrossB, 1)}}

\* an item of the review queue; a field that is absent or empty is ""
ItemFor(src, sub, qid, text, tgt, score) ==
    [question_id |-> qid, source_topic |-> src, source_subcategory |-> sub,
     question |-> text, suggested_target_topic |-> tgt, own_topic |-> 0,
     own_subcategory |-> 0, best_other |-> score]

CrossItems ==
    {ItemFor(TopicA, "ca_general", "q1", T_BPPNews, TopicB, 5),
     ItemFor(TopicB, FallbackB, "q9", T_bppNews, TopicA, 5),
     ItemFor(TopicA, "ca_general", "q1", T_BPPNews, TopicB, 3),
     ItemFor(TopicA, "ca_general", "q2", T_News, TopicB, 5),
     ItemFor("", "ca_general", "q1", T_BPPNews, TopicB, 5),
     ItemFor(TopicA, "", "q1", T_BPPNews, TopicB, 5),
     ItemFor(TopicA, "ca_general", "", T_BPPNews, TopicB, 5),
     ItemFor(TopicA, "ca_general", "q1", T_BPPNews, "", 5)}

InitCross ==
    /\ topics_file = "ok"
    /\ \E a \in DocsCrossA, b \in DocsCrossB : disk = CorpusOf(a, b)
    /\ queueFile \in SeqsUpTo(CrossItems, MaxItems)
    /\ batchFile = <<>>
    /\ reconcileFile = <<>>
    /\ min_score = 4
    /\ near_threshold = NEAR_THRESHOLD_DEFAULT
    /\ auditExact = <<>>
    /\ require_signal \in BOOLEAN
    /\ budget = 1
    /\ InitIdle

NextCross ==
    \/ \E ap \in BOOLEAN : MoverStart(ap)
    \/ MoverItem
    \/ MoverWrite
    \/ MoverFinish

SpecCross == InitCross /\ [][NextCross]_vars

\* the item has the four fields, scores at least min_score and, in
\* signal-required mode, its raw text matches the pattern of its target
Eligible(item) ==
    /\ item.source_topic # ""
    /\ item.source_subcategory # ""
    /\ item.question_id # ""
    /\ item.suggested_target_topic # ""
    /\ item.best_other >= min_score
    /\ require_signal => has_target_signal(item.question, item.suggested_target_topic)

\* C23: the batch mover records an action, and mutates anything, only for
\* queue items that have a source topic, a source subcategory, a question id
\* and a suggested target, whose best_other score is at least min_score and,
\* in signal-required mode, whose raw text matches the target's pattern.
C23_ActionsOnlyForEligibleItems ==
    [][(stage = "mover" /\ pc = "loop" /\ cursor' = cursor + 1
        /\ (actions' # actions \/ file_data' # file_data
            \/ changed_files' # changed_files \/ norms_by_topic' # norms_by_topic))
          => Eligible(CurrentItem)]_vars

\* an apply run in signal-required mode passed over an item without a source
\* topic and then moved the eligible item that came after it
C23_Witness ==
    /\ stage = "mover"
    /\ apply
    /\ require_signal
    /\ cursor = 2
    /\ items[1].source_topic = ""
    /\ Eligible(items[2])
    /\ Len(actions) = 1
    /\ actions[1].action = "move_to_target"
    /\ changed_files = {TopicA, TopicB}

(***************************************************************************)
(* The batch mover at the end of an apply run: where the moved questions   *)
(* are, and whether a removed text is still held by the target.            *)
(***************************************************************************)
\* the items of the run that got an action, in the order of the actions
RecordedItems ==
    LET handled == SubSeq(items, 1, cursor)
        Kept(item) == ~Filtered(item, question_lookup, min_score, require_signal)
    IN SelectSeq(handled, Kept)

\* the loop and the writes of an apply run are over
ApplyRunEnded ==
    /\ stage = "mover"
    /\ apply
    /\ pc = "flush"
    /\ pending = {}

\* the number of positions of a list that hold this question object
CountIn(qlist, obj) == Cardinality({i \in 1..Len(qlist) : qlist[i] = obj})

\* the effective question list of a subcategory of a topic file (empty when
\* the file or the subcategory is absent)
ListOf(d, t, sid) ==
    IF d[t].kind # "doc" THEN <<>>
    ELSE IF SubPos(d[t].subcategories, sid) = 0 THEN <<>>
    ELSE iterate_subcategory_questions(
             d[t].subcategories[SubPos(d[t].subcategories, sid)])

ListOnDisk(t, sid) == ListOf(disk, t, sid)

\* the question object that the load located for an item
LocatedFor(item) ==
    question_lookup[<<item.source_topic, item.source_subcategory,
                      item.question_id>>].question

\* C24: for every queue item recorded as move_to_target in an apply run, the
\* unchanged question object is, at the end of the run, present exactly once
\* in the fixed fallback subcategory of the target topic and absent from its
\* source subcategory.
C24_MovedQuestionOnceInTargetNotInSource ==
    ApplyRunEnded =>
        \A k \in 1..Len(actions) :
            actions[k].action = "move_to_target" =>
                LET item == RecordedItems[k]
                    obj == LocatedFor(item)
                    tgt == item.suggested_target_topic
                IN /\ CountIn(ListOnDisk(tgt, TARGET_SUBCATEGORY_DEFAULT[tgt]), obj) = 1
                   /\ CountIn(ListOnDisk(item.source_topic,
                                         item.source_subcategory), obj) = 0

\* C25: an apply run never deletes the last copy of a question text: for
\* every item recorded as remove_source_duplicate, the document of the
\* target topic at the end of the run still holds a question with the same
\* normalized text, also when two items name each other's topics as source
\* and target.
C25_TargetStillHoldsTheRemovedText ==
    ApplyRunEnded =>
        \A k \in 1..Len(actions) :
            actions[k].action = "remove_source_duplicate" =>
                LET item == RecordedItems[k]
                    tgt == item.suggested_target_topic
                IN /\ disk[tgt].kind = "doc"
                   /\ normalize_text(item.question)
                         \in DocNorms(disk[tgt].subcategories)

\* two items that name each other's topics: both copies of the text are gone
C25_BothCopiesRemoved ==
    /\ ApplyRunEnded
    /\ Len(actions) = 2
    /\ actions[1].action = "remove_source_duplicate"
    /\ actions[2].action = "remove_source_duplicate"
    /\ actions[1].source_topic = actions[2].target_topic
    /\ actions[2].source_topic = actions[1].target_topic
    /\ normalize_text(T_BPPNews) \in DocNorms(disk0[TopicA].subcategories)
    /\ \A t \in {TopicA, TopicB} :
          normalize_text(T_BPPNews) \notin DocNorms(disk[t].subcategories)

\* C26: the question that the batch mover moves or removes for a queue item
\* is one whose normalized text equals the normalized text of the item's
\* question field, also when several questions of the source subcategory
\* share the item's question id.
C26_MovedOrRemovedQuestionHasTheItemsText ==
    [][(MoverRecords /\ apply)
          => LET norm == normalize_text(CurrentItem.question)
                 loc == question_lookup[CurrentKey]
                 src == ListIn(file_data, CurrentItem.source_topic,
                               CurrentItem.source_subcategory)
             IN /\ last'.moved_in
                     => normalize_text(strip(QText(loc.question))) = norm
                /\ last'.removed
                     => normalize_text(strip(QText(src[loc.index + 1]))) = norm]_vars

\* two questions share the id q1: the item with the text of the first one
\* moved the second one
C26_OtherQuestionWithTheIdMoved ==
    /\ stage = "mover"
    /\ apply
    /\ cursor = 1
    /\ ListOf(disk0, TopicA, "ca_general")
          = <<Question("q1", T_BPP), Question("q1", T_News)>>
    /\ items[1] = Item("q1", T_BPP, 5)
    /\ actions[1].action = "move_to_target"
    /\ changed_files = {TopicA, TopicB}
    /\ ListIn(file_data, TopicA, "ca_general") = <<Question("q1", T_BPP)>>
    /\ ListIn(file_data, TopicB, FallbackB) = <<Question("q1", T_News)>>

\* two questions share the id q1 and the queue holds an item for each: the
\* first item moved the second question, the failed move of the second item
\* appended it once more
C24_MovedQuestionTwiceInTarget ==
    /\ ApplyRunEnded
    /\ ListOf(disk0, TopicA, "ca_general")
          = <<Question("q1", T_BPP), Question("q1", T_News)>>
    /\ items = <<Item("q1", T_BPP, 5), Item("q1", T_News, 5)>>
    /\ Len(actions) = 2
    /\ actions[1].action = "move_to_target"
    /\ actions[2].action = "skipped_move_failed"
    /\ ListOnDisk(TopicA, "ca_general") = <<Question("q1", T_BPP)>>
    /\ ListOnDisk(TopicB, FallbackB)
          = <<Question("q1", T_News), Question("q1", T_News)>>

(***************************************************************************)
(* The reconciler at the end of a run: whether the target still holds the  *)
(* texts it removed from the sources.                                      *)
(***************************************************************************)
\* the loop and the writes of a reconciler run are over
ReconRunEnded ==
    /\ stage = "reconciler"
    /\ pc = "flush"
    /\ pending = {}

\* C27: whenever the reconciler removes a question from a source
\* subcategory, the document of the target topic as it stands at the end of
\* that run still holds a question with the same normalized text, also when
\* the target topic of one action is the source topic of another action.
C27_TargetHoldsWhatTheReconcilerRemoved ==
    ReconRunEnded =>
        \A k \in 1..Len(actions) :
            /\ disk[actions[k].target_topic].kind = "doc"
            /\ normalize_text(actions[k].question)
                  \in DocNorms(disk[actions[k].target_topic].subcategories)

\* two actions in opposite directions removed both copies of one text
C27_BothCopiesReconciledAway ==
    /\ ReconRunEnded
    /\ Len(actions) = 2
    /\ actions[1].source_topic = TopicA /\ actions[1].target_topic = TopicB
    /\ actions[2].source_topic = TopicB /\ actions[2].target_topic = TopicA
    /\ normalize_text(actions[1].question) = normalize_text(actions[2].question)
    /\ \A t \in {TopicA, TopicB} :
          normalize_text(actions[1].question) \notin DocNorms(disk[t].subcategories)

(***************************************************************************)
(* The batch mover: a run without apply against a run with apply, and an   *)
(* apply run cut short between two of its writes.                          *)
(***************************************************************************)
\* what the batch result reports about an action
Reported(a) ==
    [action |-> a.action, question_id |-> a.question_id,
     source_topic |-> a.source_topic,
     source_subcategory |-> a.source_subcategory,
     target_topic |-> a.target_topic]

ReportedList(as) == [k \in 1..Len(as) |-> Reported(as[k])]

\* a run without apply followed by a run with apply over the same queue and
\* the same corpus
DryThenApply(k) ==
    /\ k + 1 <= Len(runs)
    /\ runs[k].stage = "mover" /\ runs[k].result = "done" /\ ~runs[k].apply
    /\ runs[k + 1].stage = "mover" /\ runs[k + 1].result = "done"
    /\ runs[k + 1].apply
    /\ runs[k].before = runs[k + 1].before

\* C28: for the same queue and the same corpus, the ordered list of actions
\* (label, question id, source, target) of a run without apply equals the
\* list of a run with apply.
C28_DryRunReportsWhatApplyReports ==
    \A k \in 1..Len(runs) :
        DryThenApply(k)
            => ReportedList(runs[k].actions) = ReportedList(runs[k + 1].actions)

\* the dry run announced two moves, the apply run made one move and one
\* removal of a duplicate
C28_DryRunAnnouncedAnotherLabel ==
    /\ DryThenApply(1)
    /\ Len(runs[1].actions) = 2
    /\ runs[1].actions[1].action = "move_to_target"
    /\ runs[1].actions[2].action = "move_to_target"
    /\ runs[2].actions[1].action = "move_to_target"
    /\ runs[2].actions[2].action = "remove_source_duplicate"

\* an apply run has written one changed topic file and not yet another
BetweenTwoWrites ==
    /\ stage = "mover"
    /\ apply
    /\ written # {}
    /\ pending # {}

\* C29: if an apply run is interrupted between the writes of two changed
\* topic files, every question recorded as move_to_target is still on disk
\* in its source document or in its target document.
C29_MovedQuestionStaysOnDisk ==
    BetweenTwoWrites =>
        \A k \in 1..Len(actions) :
            actions[k].action = "move_to_target" =>
                LET item == RecordedItems[k]
                    obj == LocatedFor(item)
                IN \E t \in {item.source_topic, item.suggested_target_topic} :
                      /\ disk[t].kind = "doc"
                      /\ obj \in DocQuestions(disk[t].subcategories)

\* the source file is written without the moved question, the target file
\* still is as it was
C29_SourceWrittenBeforeTarget ==
    /\ BetweenTwoWrites
    /\ written = {TopicA}
    /\ pending = {TopicB}
    /\ Len(actions) = 1
    /\ actions[1].action = "move_to_target"
    /\ disk[TopicB] = disk0[TopicB]
    /\ ListOf(disk0, TopicA, "ca_general") = <<Question("q1", T_BPP)>>
    /\ ListOnDisk(TopicA, "ca_general") = <<>>
    /\ ListOnDisk(TopicB, FallbackB) = <<>>

(***************************************************************************)
(* The audit: the own-subcategory score against the own-topic score.       *)
(***************************************************************************)
\* C30: for every question scored by the audit, own_subcategory_score is at
\* most own_topic_score, because every token of the profile of a
\* subcategory is also in the profile of its topic.
C30_SubcategoryScoreAtMostTopicScore ==
    AuditDone =>
        LET entries == collect_entries(disk)
        IN /\ \A key \in DOMAIN subcategory_profile_tokens(entries) :
                 subcategory_profile_tokens(entries)[key]
                    \subseteq topic_profile_tokens(entries)[key[1]]
           /\ \A i \in Scored(entries) :
                 OwnSubcategoryScore(entries[i], entries)
                    <= OwnTopicScore(entries[i], entries)
           /\ \A f \in 1..Len(auditFile) :
                 auditFile[f].own_subcategory_score <= auditFile[f].own_topic_score

\* the report holds a flag whose question shares a token with the name of
\* its subcategory, and a flag whose topic score is above its subcategory
\* score
C30_Witness ==
    /\ AuditDone
    /\ \E f \in 1..Len(auditFile) : auditFile[f].own_subcategory_score >= 1
    /\ \E f \in 1..Len(auditFile) :
          auditFile[f].own_topic_score > auditFile[f].own_subcategory_score

====
